---------------------------- MODULE Spec2Model ----------------------------
(* A model of the JIWE manuscript format checker (backend.py, app.py).     *)
(*                                                                         *)
(* Conventions.  A text is the sequence of its whitespace-separated words, *)
(* taken from the vocabulary Words; facts about single words (substrings,  *)
(* regular expressions, token sets) are tabulated from the source's own    *)
(* expressions, and facts about texts are computed from them.  A point     *)
(* size is an integer number of hundredths of a point, a w:sz value an     *)
(* integer number of half-points.  An optional value is <<>> (None) or     *)
(* <<v>>.                                                                  *)
EXTENDS Integers, Sequences, FiniteSets, TLC

None == <<>>
Some(v) == <<v>>
IsSome(o) == o # <<>>
Val(o) == o[1]

\* F(v), with v computed once however often F uses its argument
With(v, F(_)) == CHOOSE r \in {F(x) : x \in {v}} : TRUE
With2(v, w, F(_, _)) == CHOOSE r \in {F(x, y) : x \in {v}, y \in {w}} : TRUE

Max(a, b) == IF a >= b THEN a ELSE b
Min(a, b) == IF a <= b THEN a ELSE b

RECURSIVE SumSeq(_)
SumSeq(s) == With(s, LAMBDA v : IF v = <<>> THEN 0 ELSE Head(v) + SumSeq(Tail(v)))

RECURSIVE FilterOut(_, _)
\* the sequence s without its elements at the positions in drop
FilterOut(s, drop) ==
    IF s = <<>> THEN <<>>
    ELSE With2(Tail(s), {i - 1 : i \in drop \ {1}}, LAMBDA tail, others :
            IF 1 \in drop THEN FilterOut(tail, others)
            ELSE <<Head(s)>> \o FilterOut(tail, others))

Range(s) == {s[i] : i \in DOMAIN s}

\* ------------------------------------------------------------------------
\* Font sizes

\* round(): Python rounds a tie to the even neighbour.  c is in hundredths
\* of a point, so pt * 2 = c / 50.
pt_to_half_points(c) ==
    LET q == c \div 50
        r == c % 50
    IN IF r < 25 THEN q
       ELSE IF r > 25 THEN q + 1
       ELSE IF q % 2 = 0 THEN q ELSE q + 1

half_points_to_pt(hp) == hp * 50

\* fmt is a record with optional fields font_size and font_size_w_val
ensure_font_size_pair(formatting) ==
    With(formatting, LAMBDA fmt :
        IF IsSome(fmt.font_size_w_val) /\ ~IsSome(fmt.font_size)
            THEN [fmt EXCEPT !.font_size = Some(half_points_to_pt(Val(fmt.font_size_w_val)))]
        ELSE IF IsSome(fmt.font_size) /\ ~IsSome(fmt.font_size_w_val)
            THEN [fmt EXCEPT !.font_size_w_val = Some(pt_to_half_points(Val(fmt.font_size)))]
        ELSE fmt)

\* ---- sample texts: each a sequence of whitespace-separated words ----
TxtJournal == <<"Journal", "of", "Informatics", "and", "Web", "Engineering">>
TxtVolume == <<"Vol.", "3", "No.", "2", "(June", "2024)">>
TxtAddress == <<"Faculty", "of", "Computing,", "Multimedia", "University,", "Malaysia">>
TxtLab == <<"Multimedia", "University", "Computing", "Laboratory">>
TxtTitle == <<"Dropout", "Prediction", "Model">>
TxtAbstract == <<"Abstract">>
TxtKeywords == <<"Keywords:", "web,", "systems">>
TxtIntro == <<"1.", "Introduction">>
TxtIntroHint == <<"Introduction", "(10-Font", "size,", "Bold)">>
TxtResults == <<"2.", "Results", "and", "Discussion">>
TxtConclusion == <<"Conclusion">>
TxtReferences == <<"References">>
TxtAckHeading == <<"ACKNOWLEDGEMENT">>
TxtAckBody == <<"The", "authors", "would", "like", "to", "thank", "the", "anonymous",
    "reviewers", "who", "have", "provided", "valuable", "suggestions", "to", "improve", "the",
    "article.">>
TxtFundHeading == <<"FUNDING", "STATEMENT">>
TxtFundBody == <<"The", "authors", "received", "no", "funding", "from", "any", "party", "for",
    "the", "research", "and", "publication", "of", "this", "article">>
TxtBody == <<"this", "work", "studies", "web", "systems">>
TxtCitation == <<"[1]", "A.", "Tan,", "Web", "Systems,", "2024.">>
TxtEmail == <<"alice@mmu.edu.my">>
TxtAuthors == <<"Alice", "Tan,", "Bob", "Lee">>
TxtFigure == <<"Figure", "1:", "System", "overview">>
TxtTable == <<"Table", "1.", "Results", "summary">>
TxtWebEng == <<"Web", "Engineering">>
TxtRequiredLine == <<"1", ",3", "4WGP+JQP,", "Shenheer", "Rd,", "Chang'An,", "Xi'An,",
    "710100", "Shaanxi,", "China.">>
TxtIssue == <<"3">>

Words == {"Journal", "of", "Informatics", "and", "Web", "Engineering", "Vol.", "3", "No.", "2",
    "(June", "2024)", "Faculty", "Computing,", "Multimedia", "University,", "Malaysia",
    "University", "Computing", "Laboratory", "Dropout", "Prediction", "Model", "Abstract",
    "Keywords:", "web,", "systems", "1.", "Introduction", "(10-Font", "size,", "Bold)", "2.",
    "Results", "Discussion", "Conclusion", "References", "ACKNOWLEDGEMENT", "The", "authors",
    "would", "like", "to", "thank", "the", "anonymous", "reviewers", "who", "have", "provided",
    "valuable", "suggestions", "improve", "article.", "FUNDING", "STATEMENT", "received", "no",
    "funding", "from", "any", "party", "for", "research", "publication", "this", "article",
    "work", "studies", "web", "[1]", "A.", "Tan,", "Systems,", "2024.", "alice@mmu.edu.my",
    "Alice", "Bob", "Lee", "Figure", "1:", "System", "overview", "Table", "summary", "1", ",3",
    "4WGP+JQP,", "Shenheer", "Rd,", "Chang'An,", "Xi'An,", "710100", "Shaanxi,", "China."}

\* str.lower of a word
LowerMap == ("Journal" :> "journal") @@ ("Informatics" :> "informatics") @@ ("Web" :> "web") @@
    ("Engineering" :> "engineering") @@ ("Vol." :> "vol.") @@ ("No." :> "no.") @@
    ("(June" :> "(june") @@ ("Faculty" :> "faculty") @@ ("Computing," :> "computing,") @@
    ("Multimedia" :> "multimedia") @@ ("University," :> "university,") @@
    ("Malaysia" :> "malaysia") @@ ("University" :> "university") @@
    ("Computing" :> "computing") @@ ("Laboratory" :> "laboratory") @@
    ("Dropout" :> "dropout") @@ ("Prediction" :> "prediction") @@ ("Model" :> "model") @@
    ("Abstract" :> "abstract") @@ ("Keywords:" :> "keywords:") @@
    ("Introduction" :> "introduction") @@ ("(10-Font" :> "(10-font") @@ ("Bold)" :> "bold)") @@
    ("Results" :> "results") @@ ("Discussion" :> "discussion") @@
    ("Conclusion" :> "conclusion") @@ ("References" :> "references") @@
    ("ACKNOWLEDGEMENT" :> "acknowledgement") @@ ("The" :> "the") @@ ("FUNDING" :> "funding") @@
    ("STATEMENT" :> "statement") @@ ("A." :> "a.") @@ ("Tan," :> "tan,") @@
    ("Systems," :> "systems,") @@ ("Alice" :> "alice") @@ ("Bob" :> "bob") @@
    ("Lee" :> "lee") @@ ("Figure" :> "figure") @@ ("System" :> "system") @@
    ("Table" :> "table") @@ ("4WGP+JQP," :> "4wgp+jqp,") @@ ("Shenheer" :> "shenheer") @@
    ("Rd," :> "rd,") @@ ("Chang'An," :> "chang'an,") @@ ("Xi'An," :> "xi'an,") @@
    ("Shaanxi," :> "shaanxi,") @@ ("China." :> "china.")
Lower(w) == IF w \in DOMAIN LowerMap THEN LowerMap[w] ELSE w
\* normalize_metadata_tokens of a word, as a set
MetaTokensMap == ("Journal" :> {"journal"}) @@ ("of" :> {"of"}) @@
    ("Informatics" :> {"informatics"}) @@ ("and" :> {"and"}) @@ ("Web" :> {"web"}) @@
    ("Engineering" :> {"engineering"}) @@ ("Vol." :> {"vol"}) @@ ("3" :> {"3"}) @@
    ("No." :> {"no"}) @@ ("2" :> {"2"}) @@ ("(June" :> {"june"}) @@ ("2024)" :> {"2024"}) @@
    ("Faculty" :> {"faculty"}) @@ ("Computing," :> {"computing"}) @@
    ("Multimedia" :> {"multimedia"}) @@ ("University," :> {"university"}) @@
    ("Malaysia" :> {"malaysia"}) @@ ("University" :> {"university"}) @@
    ("Computing" :> {"computing"}) @@ ("Laboratory" :> {"laboratory"}) @@
    ("Dropout" :> {"dropout"}) @@ ("Prediction" :> {"prediction"}) @@ ("Model" :> {"model"}) @@
    ("Abstract" :> {"abstract"}) @@ ("Keywords:" :> {"keywords"}) @@ ("web," :> {"web"}) @@
    ("systems" :> {"systems"}) @@ ("1." :> {"1"}) @@ ("Introduction" :> {"introduction"}) @@
    ("(10-Font" :> {"10", "font"}) @@ ("size," :> {"size"}) @@ ("Bold)" :> {"bold"}) @@
    ("2." :> {"2"}) @@ ("Results" :> {"results"}) @@ ("Discussion" :> {"discussion"}) @@
    ("Conclusion" :> {"conclusion"}) @@ ("References" :> {"references"}) @@
    ("ACKNOWLEDGEMENT" :> {"acknowledgement"}) @@ ("The" :> {"the"}) @@
    ("authors" :> {"authors"}) @@ ("would" :> {"would"}) @@ ("like" :> {"like"}) @@
    ("to" :> {"to"}) @@ ("thank" :> {"thank"}) @@ ("the" :> {"the"}) @@
    ("anonymous" :> {"anonymous"}) @@ ("reviewers" :> {"reviewers"}) @@ ("who" :> {"who"}) @@
    ("have" :> {"have"}) @@ ("provided" :> {"provided"}) @@ ("valuable" :> {"valuable"}) @@
    ("suggestions" :> {"suggestions"}) @@ ("improve" :> {"improve"}) @@
    ("article." :> {"article"}) @@ ("FUNDING" :> {"funding"}) @@
    ("STATEMENT" :> {"statement"}) @@ ("received" :> {"received"}) @@ ("no" :> {"no"}) @@
    ("funding" :> {"funding"}) @@ ("from" :> {"from"}) @@ ("any" :> {"any"}) @@
    ("party" :> {"party"}) @@ ("for" :> {"for"}) @@ ("research" :> {"research"}) @@
    ("publication" :> {"publication"}) @@ ("this" :> {"this"}) @@ ("article" :> {"article"}) @@
    ("work" :> {"work"}) @@ ("studies" :> {"studies"}) @@ ("web" :> {"web"}) @@
    ("[1]" :> {"1"}) @@ ("A." :> {"a"}) @@ ("Tan," :> {"tan"}) @@
    ("Systems," :> {"systems"}) @@ ("2024." :> {"2024"}) @@
    ("alice@mmu.edu.my" :> {"alice", "edu", "mmu", "my"}) @@ ("Alice" :> {"alice"}) @@
    ("Bob" :> {"bob"}) @@ ("Lee" :> {"lee"}) @@ ("Figure" :> {"figure"}) @@ ("1:" :> {"1"}) @@
    ("System" :> {"system"}) @@ ("overview" :> {"overview"}) @@ ("Table" :> {"table"}) @@
    ("summary" :> {"summary"}) @@ ("1" :> {"1"}) @@ (",3" :> {"3"}) @@
    ("4WGP+JQP," :> {"4wgp", "jqp"}) @@ ("Shenheer" :> {"shenheer"}) @@ ("Rd," :> {"rd"}) @@
    ("Chang'An," :> {"an", "chang"}) @@ ("Xi'An," :> {"an", "xi"}) @@
    ("710100" :> {"710100"}) @@ ("Shaanxi," :> {"shaanxi"}) @@ ("China." :> {"china"})
MetaTokens(w) == IF w \in DOMAIN MetaTokensMap THEN MetaTokensMap[w] ELSE {}
\* len(word)
WordLenMap == ("Journal" :> 7) @@ ("of" :> 2) @@ ("Informatics" :> 11) @@ ("and" :> 3) @@
    ("Web" :> 3) @@ ("Engineering" :> 11) @@ ("Vol." :> 4) @@ ("3" :> 1) @@ ("No." :> 3) @@
    ("2" :> 1) @@ ("(June" :> 5) @@ ("2024)" :> 5) @@ ("Faculty" :> 7) @@
    ("Computing," :> 10) @@ ("Multimedia" :> 10) @@ ("University," :> 11) @@
    ("Malaysia" :> 8) @@ ("University" :> 10) @@ ("Computing" :> 9) @@ ("Laboratory" :> 10) @@
    ("Dropout" :> 7) @@ ("Prediction" :> 10) @@ ("Model" :> 5) @@ ("Abstract" :> 8) @@
    ("Keywords:" :> 9) @@ ("web," :> 4) @@ ("systems" :> 7) @@ ("1." :> 2) @@
    ("Introduction" :> 12) @@ ("(10-Font" :> 8) @@ ("size," :> 5) @@ ("Bold)" :> 5) @@
    ("2." :> 2) @@ ("Results" :> 7) @@ ("Discussion" :> 10) @@ ("Conclusion" :> 10) @@
    ("References" :> 10) @@ ("ACKNOWLEDGEMENT" :> 15) @@ ("The" :> 3) @@ ("authors" :> 7) @@
    ("would" :> 5) @@ ("like" :> 4) @@ ("to" :> 2) @@ ("thank" :> 5) @@ ("the" :> 3) @@
    ("anonymous" :> 9) @@ ("reviewers" :> 9) @@ ("who" :> 3) @@ ("have" :> 4) @@
    ("provided" :> 8) @@ ("valuable" :> 8) @@ ("suggestions" :> 11) @@ ("improve" :> 7) @@
    ("article." :> 8) @@ ("FUNDING" :> 7) @@ ("STATEMENT" :> 9) @@ ("received" :> 8) @@
    ("no" :> 2) @@ ("funding" :> 7) @@ ("from" :> 4) @@ ("any" :> 3) @@ ("party" :> 5) @@
    ("for" :> 3) @@ ("research" :> 8) @@ ("publication" :> 11) @@ ("this" :> 4) @@
    ("article" :> 7) @@ ("work" :> 4) @@ ("studies" :> 7) @@ ("web" :> 3) @@ ("[1]" :> 3) @@
    ("A." :> 2) @@ ("Tan," :> 4) @@ ("Systems," :> 8) @@ ("2024." :> 5) @@
    ("alice@mmu.edu.my" :> 16) @@ ("Alice" :> 5) @@ ("Bob" :> 3) @@ ("Lee" :> 3) @@
    ("Figure" :> 6) @@ ("1:" :> 2) @@ ("System" :> 6) @@ ("overview" :> 8) @@ ("Table" :> 5) @@
    ("summary" :> 7) @@ ("1" :> 1) @@ (",3" :> 2) @@ ("4WGP+JQP," :> 9) @@ ("Shenheer" :> 8) @@
    ("Rd," :> 3) @@ ("Chang'An," :> 9) @@ ("Xi'An," :> 6) @@ ("710100" :> 6) @@
    ("Shaanxi," :> 8) @@ ("China." :> 6)
WordLen(w) == IF w \in DOMAIN WordLenMap THEN WordLenMap[w] ELSE 0
\* number of alphabetic characters
AlphaCountMap == ("Journal" :> 7) @@ ("of" :> 2) @@ ("Informatics" :> 11) @@ ("and" :> 3) @@
    ("Web" :> 3) @@ ("Engineering" :> 11) @@ ("Vol." :> 3) @@ ("No." :> 2) @@ ("(June" :> 4) @@
    ("Faculty" :> 7) @@ ("Computing," :> 9) @@ ("Multimedia" :> 10) @@ ("University," :> 10) @@
    ("Malaysia" :> 8) @@ ("University" :> 10) @@ ("Computing" :> 9) @@ ("Laboratory" :> 10) @@
    ("Dropout" :> 7) @@ ("Prediction" :> 10) @@ ("Model" :> 5) @@ ("Abstract" :> 8) @@
    ("Keywords:" :> 8) @@ ("web," :> 3) @@ ("systems" :> 7) @@ ("Introduction" :> 12) @@
    ("(10-Font" :> 4) @@ ("size," :> 4) @@ ("Bold)" :> 4) @@ ("Results" :> 7) @@
    ("Discussion" :> 10) @@ ("Conclusion" :> 10) @@ ("References" :> 10) @@
    ("ACKNOWLEDGEMENT" :> 15) @@ ("The" :> 3) @@ ("authors" :> 7) @@ ("would" :> 5) @@
    ("like" :> 4) @@ ("to" :> 2) @@ ("thank" :> 5) @@ ("the" :> 3) @@ ("anonymous" :> 9) @@
    ("reviewers" :> 9) @@ ("who" :> 3) @@ ("have" :> 4) @@ ("provided" :> 8) @@
    ("valuable" :> 8) @@ ("suggestions" :> 11) @@ ("improve" :> 7) @@ ("article." :> 7) @@
    ("FUNDING" :> 7) @@ ("STATEMENT" :> 9) @@ ("received" :> 8) @@ ("no" :> 2) @@
    ("funding" :> 7) @@ ("from" :> 4) @@ ("any" :> 3) @@ ("party" :> 5) @@ ("for" :> 3) @@
    ("research" :> 8) @@ ("publication" :> 11) @@ ("this" :> 4) @@ ("article" :> 7) @@
    ("work" :> 4) @@ ("studies" :> 7) @@ ("web" :> 3) @@ ("A." :> 1) @@ ("Tan," :> 3) @@
    ("Systems," :> 7) @@ ("alice@mmu.edu.my" :> 13) @@ ("Alice" :> 5) @@ ("Bob" :> 3) @@
    ("Lee" :> 3) @@ ("Figure" :> 6) @@ ("System" :> 6) @@ ("overview" :> 8) @@
    ("Table" :> 5) @@ ("summary" :> 7) @@ ("4WGP+JQP," :> 6) @@ ("Shenheer" :> 8) @@
    ("Rd," :> 2) @@ ("Chang'An," :> 7) @@ ("Xi'An," :> 4) @@ ("Shaanxi," :> 7) @@
    ("China." :> 5)
AlphaCount(w) == IF w \in DOMAIN AlphaCountMap THEN AlphaCountMap[w] ELSE 0
\* number of digit characters
DigitCountMap == ("3" :> 1) @@ ("2" :> 1) @@ ("2024)" :> 4) @@ ("1." :> 1) @@
    ("(10-Font" :> 2) @@ ("2." :> 1) @@ ("[1]" :> 1) @@ ("2024." :> 4) @@ ("1:" :> 1) @@
    ("1" :> 1) @@ (",3" :> 1) @@ ("4WGP+JQP," :> 1) @@ ("710100" :> 6)
DigitCount(w) == IF w \in DOMAIN DigitCountMap THEN DigitCountMap[w] ELSE 0
\* len(w) > 2 and w[0].isupper() and w[1:].islower(), w = strip_token(word)
TitleCaseWords == {"Journal", "Informatics", "Web", "Engineering", "Vol.", "(June", "Faculty",
    "Computing,", "Multimedia", "University,", "Malaysia", "University", "Computing",
    "Laboratory", "Dropout", "Prediction", "Model", "Abstract", "Keywords:", "Introduction",
    "Bold)", "Results", "Discussion", "Conclusion", "References", "The", "Tan,", "Systems,",
    "Alice", "Bob", "Lee", "Figure", "System", "Table", "Shenheer", "Shaanxi,", "China."}
\* any(ch.isalpha()) and not w.islower(), w = strip_token(word)
NonLowerWords == {"Journal", "Informatics", "Web", "Engineering", "Vol.", "No.", "(June",
    "Faculty", "Computing,", "Multimedia", "University,", "Malaysia", "University",
    "Computing", "Laboratory", "Dropout", "Prediction", "Model", "Abstract", "Keywords:",
    "Introduction", "(10-Font", "Bold)", "Results", "Discussion", "Conclusion", "References",
    "ACKNOWLEDGEMENT", "The", "FUNDING", "STATEMENT", "A.", "Tan,", "Systems,", "Alice", "Bob",
    "Lee", "Figure", "System", "Table", "4WGP+JQP,", "Shenheer", "Rd,", "Chang'An,", "Xi'An,",
    "Shaanxi,", "China."}
\* re.search(r"\d", word)
DigitWords == {"3", "2", "2024)", "1.", "(10-Font", "2.", "[1]", "2024.", "1:", "1", ",3",
    "4WGP+JQP,", "710100"}
\* "," in word
CommaWords == {"Computing,", "University,", "web,", "size,", "Tan,", "Systems,", ",3",
    "4WGP+JQP,", "Rd,", "Chang'An,", "Xi'An,", "Shaanxi,"}
\* ";" in word
SemicolonWords == {}
\* "@" in word
AtWords == {"alice@mmu.edu.my"}
\* re.fullmatch(r"[\d\W]+", word)
DigitPunctWords == {"3", "2", "2024)", "1.", "2.", "[1]", "2024.", "1:", "1", ",3", "710100"}
\* a leading word the decimal numbering pattern removes whole
NumberingWords == {"3", "2", "2024)", "1.", "2.", "2024.", "1:", "1", "710100"}
\* a leading word one of the roman numbering patterns removes whole
RomanWords == {}
\* a first word matching one of the figure-caption patterns
FigureWords == {"Figure"}
\* a first word matching one of the table-caption patterns
TableWords == {"Table"}
\* re.fullmatch(r"\d+[.)]?", word)
NumberPrefixWords == {"3", "2", "2024)", "1.", "2.", "2024.", "1", "710100"}
\* re.match(r"^\d+[\.\)]?\s*\w+", word)
NumberedGluedWords == {"2024)", "2024.", "4WGP+JQP,", "710100"}
\* re.match(r"^\w", word)
WordCharStartWords == Words \ {"(June", "(10-Font", "[1]", ",3"}
\* a leading word without its bullet markers and leading ' ,;:-'
StripLeadMap == (",3" :> "3")
StripLead(w) == IF w \in DOMAIN StripLeadMap THEN StripLeadMap[w] ELSE w
\* re.search(r"\b[A-Z][a-z]{1,}$", word)
NameEndWords == {"Journal", "Informatics", "Web", "Engineering", "(June", "Faculty",
    "Multimedia", "Malaysia", "University", "Computing", "Laboratory", "Dropout", "Prediction",
    "Model", "Abstract", "Introduction", "(10-Font", "Results", "Discussion", "Conclusion",
    "References", "The", "Alice", "Bob", "Lee", "Figure", "System", "Table", "Shenheer"}
\* re.match(r"^[A-Z][a-z]{1,}\b", word)
NameStartWords == {"Journal", "Informatics", "Web", "Engineering", "Vol.", "No.", "Faculty",
    "Computing,", "Multimedia", "University,", "Malaysia", "University", "Computing",
    "Laboratory", "Dropout", "Prediction", "Model", "Abstract", "Keywords:", "Introduction",
    "Bold)", "Results", "Discussion", "Conclusion", "References", "The", "Tan,", "Systems,",
    "Alice", "Bob", "Lee", "Figure", "System", "Table", "Shenheer", "Rd,", "Chang'An,",
    "Xi'An,", "Shaanxi,", "China."}
\* word.startswith("(")
OpenParenWords == {"(June", "(10-Font"}
\* the word closes a parenthesis
CloseParenWords == {"2024)", "Bold)"}
\* hundredths of a point n when the word ends "n-font" (first size pattern), else -1
SizeHintBeforeFontMap == ("(10-Font" :> 1000)
SizeHintBeforeFont(w) == IF w \in DOMAIN SizeHintBeforeFontMap THEN SizeHintBeforeFontMap[w] ELSE -1
\* the words w with n in w.lower()
WordsContaining(n) ==
    CASE n = "abstract" -> {"Abstract"}
      [] n = "acknowledgement" -> {"ACKNOWLEDGEMENT"}
      [] n = "and" -> {"and"}
      [] n = "author" -> {"authors"}
      [] n = "authors" -> {"authors"}
      [] n = "bold" -> {"Bold)"}
      [] n = "china" -> {"China."}
      [] n = "conclusion" -> {"Conclusion"}
      [] n = "discussion" -> {"Discussion"}
      [] n = "faculty" -> {"Faculty"}
      [] n = "figure" -> {"Figure"}
      [] n = "font" -> {"(10-Font"}
      [] n = "funding" -> {"FUNDING", "funding"}
      [] n = "introduction" -> {"Introduction"}
      [] n = "journal" -> {"Journal"}
      [] n = "keyword" -> {"Keywords:"}
      [] n = "keywords" -> {"Keywords:"}
      [] n = "malaysia" -> {"Malaysia"}
      [] n = "no." -> {"No."}
      [] n = "of" -> {"of"}
      [] n = "reference" -> {"References"}
      [] n = "references" -> {"References"}
      [] n = "research" -> {"research"}
      [] n = "results" -> {"Results"}
      [] n = "review" -> {"reviewers"}
      [] n = "size" -> {"size,"}
      [] n = "statement" -> {"STATEMENT"}
      [] n = "table" -> {"Table"}
      [] n = "university" -> {"University,", "University"}
      [] n = "vol." -> {"Vol."}
      [] n = "work" -> {"work"}
      [] OTHER -> {}
\* the words w with w.lower().startswith(n)
WordsStartingWith(n) ==
    CASE n = "abstract" -> {"Abstract"}
      [] n = "acknowledgement" -> {"ACKNOWLEDGEMENT"}
      [] n = "and" -> {"and"}
      [] n = "author" -> {"authors"}
      [] n = "authors" -> {"authors"}
      [] n = "bold" -> {"Bold)"}
      [] n = "china" -> {"China."}
      [] n = "conclusion" -> {"Conclusion"}
      [] n = "discussion" -> {"Discussion"}
      [] n = "faculty" -> {"Faculty"}
      [] n = "figure" -> {"Figure"}
      [] n = "funding" -> {"FUNDING", "funding"}
      [] n = "introduction" -> {"Introduction"}
      [] n = "journal" -> {"Journal"}
      [] n = "keyword" -> {"Keywords:"}
      [] n = "keywords" -> {"Keywords:"}
      [] n = "malaysia" -> {"Malaysia"}
      [] n = "no." -> {"No."}
      [] n = "of" -> {"of"}
      [] n = "reference" -> {"References"}
      [] n = "references" -> {"References"}
      [] n = "research" -> {"research"}
      [] n = "results" -> {"Results"}
      [] n = "review" -> {"reviewers"}
      [] n = "size" -> {"size,"}
      [] n = "statement" -> {"STATEMENT"}
      [] n = "table" -> {"Table"}
      [] n = "university" -> {"University,", "University"}
      [] n = "vol." -> {"Vol."}
      [] n = "work" -> {"work"}
      [] OTHER -> {}
\* the words w with w.lower().endswith(n)
WordsEndingWith(n) ==
    CASE n = "abstract" -> {"Abstract"}
      [] n = "acknowledgement" -> {"ACKNOWLEDGEMENT"}
      [] n = "and" -> {"and"}
      [] n = "authors" -> {"authors"}
      [] n = "conclusion" -> {"Conclusion"}
      [] n = "discussion" -> {"Discussion"}
      [] n = "faculty" -> {"Faculty"}
      [] n = "figure" -> {"Figure"}
      [] n = "font" -> {"(10-Font"}
      [] n = "funding" -> {"FUNDING", "funding"}
      [] n = "introduction" -> {"Introduction"}
      [] n = "journal" -> {"Journal"}
      [] n = "malaysia" -> {"Malaysia"}
      [] n = "no." -> {"No."}
      [] n = "of" -> {"of"}
      [] n = "references" -> {"References"}
      [] n = "research" -> {"research"}
      [] n = "results" -> {"Results"}
      [] n = "statement" -> {"STATEMENT"}
      [] n = "table" -> {"Table"}
      [] n = "university" -> {"University"}
      [] n = "vol." -> {"Vol."}
      [] n = "work" -> {"work"}
      [] OTHER -> {}
\* the words w with re.search(r"\b" + n + r"\b", w.lower())
WordsWithWholeWord(n) ==
    CASE n = "abstract" -> {"Abstract"}
      [] n = "acknowledgement" -> {"ACKNOWLEDGEMENT"}
      [] n = "and" -> {"and"}
      [] n = "authors" -> {"authors"}
      [] n = "bold" -> {"Bold)"}
      [] n = "china" -> {"China."}
      [] n = "conclusion" -> {"Conclusion"}
      [] n = "discussion" -> {"Discussion"}
      [] n = "faculty" -> {"Faculty"}
      [] n = "figure" -> {"Figure"}
      [] n = "font" -> {"(10-Font"}
      [] n = "funding" -> {"FUNDING", "funding"}
      [] n = "introduction" -> {"Introduction"}
      [] n = "journal" -> {"Journal"}
      [] n = "keywords" -> {"Keywords:"}
      [] n = "malaysia" -> {"Malaysia"}
      [] n = "of" -> {"of"}
      [] n = "references" -> {"References"}
      [] n = "research" -> {"research"}
      [] n = "results" -> {"Results"}
      [] n = "size" -> {"size,"}
      [] n = "statement" -> {"STATEMENT"}
      [] n = "table" -> {"Table"}
      [] n = "university" -> {"University,", "University"}
      [] n = "work" -> {"work"}
      [] OTHER -> {}
\* the words w with re.match(n + r"\b", w.lower())
WordsMatchingKeyword(n) ==
    CASE n = "abstract" -> {"Abstract"}
      [] n = "acknowledgement" -> {"ACKNOWLEDGEMENT"}
      [] n = "and" -> {"and"}
      [] n = "authors" -> {"authors"}
      [] n = "bold" -> {"Bold)"}
      [] n = "china" -> {"China."}
      [] n = "conclusion" -> {"Conclusion"}
      [] n = "discussion" -> {"Discussion"}
      [] n = "faculty" -> {"Faculty"}
      [] n = "figure" -> {"Figure"}
      [] n = "funding" -> {"FUNDING", "funding"}
      [] n = "introduction" -> {"Introduction"}
      [] n = "journal" -> {"Journal"}
      [] n = "keywords" -> {"Keywords:"}
      [] n = "malaysia" -> {"Malaysia"}
      [] n = "of" -> {"of"}
      [] n = "references" -> {"References"}
      [] n = "research" -> {"research"}
      [] n = "results" -> {"Results"}
      [] n = "size" -> {"size,"}
      [] n = "statement" -> {"STATEMENT"}
      [] n = "table" -> {"Table"}
      [] n = "university" -> {"University,", "University"}
      [] n = "work" -> {"work"}
      [] OTHER -> {}
\* hundredths of a point n when the word begins "sizen" (second size pattern), else -1
SizeGluedNumber(w) == -1
\* hundredths of the decimal number the word begins with, else -1
LeadingNumberMap == ("3" :> 300) @@ ("2" :> 200) @@ ("2024)" :> 202400) @@ ("1." :> 100) @@
    ("2." :> 200) @@ ("2024." :> 202400) @@ ("1:" :> 100) @@ ("1" :> 100) @@
    ("4WGP+JQP," :> 400) @@ ("710100" :> 71010000)
LeadingNumber(w) == IF w \in DOMAIN LeadingNumberMap THEN LeadingNumberMap[w] ELSE -1
\* re.match(r"\d+\.\d+\.\d+", word)
DeepNumberWords == {}

\* ---- fonts ----
FontNames == {"Times New Roman", "Times", "Arial", "Helvetica", "Palatino Linotype", "Calibri",
    "Cambria"}
\* backend.normalize_font_name on FontNames
normalize_font_name(name) ==
    CASE name = "Times" -> "Times New Roman"
      [] name = "Helvetica" -> "Arial"
      [] OTHER -> name
\* backend.fonts_similar on FontNames: the unordered pairs of distinct names it accepts
SimilarFontPairs == {<<"Times New Roman", "Times">>, <<"Times", "Times New Roman">>,
    <<"Arial", "Helvetica">>, <<"Helvetica", "Arial">>, <<"Calibri", "Cambria">>,
    <<"Cambria", "Calibri">>}
fonts_similar(font1, font2) == font1 = font2 \/ <<font1, font2>> \in SimilarFontPairs

\* ---- the texts a paragraph of the model can have ----
SampleTexts == <<TxtJournal, TxtVolume, TxtAddress, TxtLab, TxtTitle, TxtAbstract, TxtKeywords,
    TxtIntro, TxtIntroHint, TxtResults, TxtConclusion, TxtReferences, TxtAckHeading,
    TxtAckBody, TxtFundHeading, TxtFundBody, TxtBody, TxtCitation, TxtEmail, TxtAuthors,
    TxtFigure, TxtTable, TxtWebEng, TxtRequiredLine, TxtIssue>>
TextId(t) == CHOOSE i \in DOMAIN SampleTexts : SampleTexts[i] = t
\* the score find_matching_example gives an example text (row) for a target
\* text (column), in millionths, rounded down
MatchScore ==
    <<<<1000000, 307692, 252631, 285714, 272727, 120000, 312500, 280701, 216216, 298507, 115384,
       230769, 175438, 188679, 203389, 233576, 338028, 285714, 241379, 400000, 208955, 181818,
       950000, 203703, 0>>,
      <<307692, 1000000, 184210, 184615, 85106, 0, 266666, 315789, 72727, 250000, 181818, 121212,
       157894, 171428, 150000, 152542, 192307, 470588, 153846, 243902, 208333, 212765, 210526,
       247191, 950000>>,
      <<210526, 210526, 1000000, 547368, 311688, 98360, 240000, 117647, 305882, 256410, 158730,
       126984, 235294, 223529, 314285, 162162, 195121, 222222, 318840, 253521, 230769, 233766,
       117647, 235294, 0>>,
      <<261904, 184615, 547368, 1000000, 333333, 200000, 156250, 140350, 297297, 298507, 192307,
       153846, 175438, 213836, 271186, 291970, 225352, 228571, 206896, 266666, 179104, 212121,
       245614, 203703, 0>>,
      <<242424, 170212, 311688, 303030, 1000000, 187500, 173913, 410256, 392857, 367346, 294117,
       235294, 205128, 255319, 243902, 285714, 226415, 153846, 300000, 333333, 204081, 291666,
       153846, 111111, 0>>,
      <<120000, 0, 98360, 200000, 250000, 1000000, 200000, 347826, 200000, 181818, 111111,
       111111, 260869, 112000, 320000, 97087, 162162, 222222, 166666, 153846, 181818, 312500,
       173913, 108108, 0>>,
      <<312500, 266666, 240000, 156250, 173913, 200000, 1000000, 162162, 259259, 297872, 125000,
       187500, 270270, 215827, 307692, 222222, 666666, 520000, 105263, 300000, 425531, 260869,
       270270, 159090, 0>>,
      <<280701, 315789, 176470, 210526, 410256, 347826, 162162, 1000000, 510638, 350000, 400000,
       160000, 133333, 196969, 312500, 236363, 181818, 232558, 258064, 181818, 200000, 256410,
       400000, 123456, 0>>,
      <<297297, 290909, 235294, 135135, 428571, 200000, 296296, 510638, 1000000, 175438, 238095,
       142857, 85106, 241610, 244897, 267716, 262295, 300000, 166666, 280000, 280701, 214285,
       212765, 285714, 0>>,
      <<388059, 208333, 282051, 298507, 367346, 121212, 255319, 400000, 210526, 1000000, 285714,
       171428, 100000, 140845, 285714, 250000, 222222, 301886, 243902, 139534, 160000, 448979,
       150000, 263736, 0>>,
      <<153846, 242424, 222222, 192307, 235294, 111111, 125000, 320000, 190476, 342857, 1000000,
       300000, 240000, 125984, 222222, 152380, 153846, 105263, 153846, 214285, 114285, 176470,
       240000, 131578, 0>>,
      <<192307, 60606, 126984, 153846, 176470, 222222, 250000, 160000, 95238, 285714, 300000,
       1000000, 320000, 110236, 222222, 171428, 153846, 157894, 153846, 142857, 285714,
       176470, 320000, 131578, 0>>,
      <<245614, 157894, 235294, 175438, 205128, 260869, 324324, 133333, 85106, 150000, 320000,
       320000, 1000000, 181818, 375000, 109090, 227272, 279069, 322580, 424242, 200000,
       256410, 266666, 98765, 0>>,
      <<163522, 28571, 258823, 238993, 212765, 80000, 201438, 136363, 201342, 197183, 110236,
       110236, 151515, 1000000, 119402, 443396, 301369, 82758, 120300, 222222, 126760, 198581,
       75757, 218579, 0>>,
      <<203389, 150000, 314285, 271186, 292682, 320000, 307692, 312500, 204081, 238095, 148148,
       296296, 500000, 134328, 1000000, 214285, 304347, 266666, 242424, 342857, 380952,
       195121, 250000, 192771, 0>>,
      <<277372, 169491, 202702, 306569, 252100, 58252, 153846, 200000, 236220, 233333, 95238,
       95238, 109090, 471698, 232142, 1000000, 145161, 97560, 126126, 194690, 133333, 168067,
       109090, 273291, 0>>,
      <<309859, 230769, 317073, 225352, 226415, 162162, 627450, 136363, 229508, 148148, 102564,
       153846, 181818, 287671, 304347, 145161, 1000000, 491228, 266666, 255319, 370370,
       188679, 227272, 42105, 0>>,
      <<285714, 470588, 222222, 200000, 192307, 222222, 520000, 232558, 300000, 339622, 105263,
       157894, 279069, 262068, 266666, 211382, 526315, 1000000, 181818, 434782, 377358,
       269230, 232558, 276595, 0>>,
      <<241379, 153846, 86956, 275862, 250000, 166666, 157894, 193548, 250000, 195121, 153846,
       153846, 322580, 75187, 242424, 90090, 177777, 272727, 1000000, 470588, 292682, 350000,
       193548, 73170, 0>>,
      <<400000, 146341, 112676, 166666, 333333, 230769, 300000, 181818, 320000, 279069, 214285,
       142857, 424242, 207407, 285714, 159292, 255319, 434782, 470588, 1000000, 372093,
       333333, 303030, 166666, 0>>,
      <<208955, 125000, 307692, 179104, 204081, 181818, 425531, 300000, 210526, 280000, 114285,
       285714, 200000, 112676, 428571, 216666, 407407, 377358, 292682, 325581, 1000000,
       285714, 250000, 175824, 0>>,
      <<151515, 127659, 233766, 272727, 208333, 250000, 304347, 307692, 178571, 489795, 117647,
       176470, 256410, 198581, 243902, 252100, 301886, 307692, 350000, 285714, 285714,
       1000000, 153846, 133333, 0>>,
      <<950000, 210526, 117647, 315789, 153846, 173913, 270270, 400000, 127659, 250000, 240000,
       320000, 266666, 166666, 250000, 145454, 227272, 232558, 193548, 303030, 300000, 205128,
       1000000, 222222, 0>>,
      <<222222, 179775, 201680, 203703, 155555, 81081, 181818, 123456, 204081, 197802, 52631,
       105263, 98765, 229508, 168674, 347826, 168421, 276595, 73170, 142857, 153846, 133333,
       197530, 1000000, 950000>>,
      <<0, 950000, 0, 0, 0, 0, 0, 0, 0, 0, 0, 0, 0, 0, 0, 0, 0, 0, 0, 0, 0, 0, 0, 950000,
       1000000>>>>

\* score_template_example adds halves (h/2) and then min(letters/30, 1) in floating
\* point: the pairs <<h, letters>> whose sum is the larger of the two values that
\* pairs with the same exact sum take
FloatRoundedUp == {<<0, 23>>, <<0, 25>>, <<1, 7>>, <<1, 25>>, <<2, 1>>, <<2, 5>>, <<2, 25>>,
    <<3, 1>>, <<3, 5>>, <<4, 2>>, <<5, 2>>, <<6, 2>>, <<7, 2>>, <<7, 26>>, <<8, 4>>, <<8, 26>>,
    <<9, 4>>, <<9, 26>>, <<10, 4>>, <<10, 26>>, <<11, 4>>, <<11, 26>>, <<12, 4>>, <<12, 26>>,
    <<13, 4>>, <<13, 26>>, <<14, 4>>, <<14, 26>>, <<15, 4>>}

\* ------------------------------------------------------------------------
\* Texts

Texts == Seq(Words)

\* len(text) of a text whose words are joined by single blanks
TextLen(t) == IF t = <<>> THEN 0 ELSE SumSeq([i \in DOMAIN t |-> WordLen(t[i])]) + Len(t) - 1

\* `needle in text.lower()` for a needle given as the sequence of its words
ContainsPhrase(t, ph) ==
    IF Len(ph) = 1 THEN \E i \in DOMAIN t : t[i] \in WordsContaining(ph[1])
    ELSE \E i \in 1..(Len(t) - Len(ph) + 1) :
            /\ t[i] \in WordsEndingWith(ph[1])
            /\ \A j \in 2..(Len(ph) - 1) : Lower(t[i + j - 1]) = ph[j]
            /\ t[i + Len(ph) - 1] \in WordsStartingWith(ph[Len(ph)])

\* text.lower().startswith(needle)
StartsWithPhrase(t, ph) ==
    /\ Len(t) >= Len(ph)
    /\ \A j \in 1..(Len(ph) - 1) : Lower(t[j]) = ph[j]
    /\ t[Len(ph)] \in WordsStartingWith(ph[Len(ph)])

\* re.match(needle + r"\b", text.lower())
StartsWithKeyword(t, ph) ==
    /\ Len(t) >= Len(ph)
    /\ \A j \in 1..(Len(ph) - 1) : Lower(t[j]) = ph[j]
    /\ t[Len(ph)] \in WordsMatchingKeyword(ph[Len(ph)])

\* f" {needle} " in text.lower()
ContainsSpacedPhrase(t, ph) ==
    \E i \in 2..(Len(t) - Len(ph)) :
        \A j \in 1..Len(ph) : Lower(t[i + j - 1]) = ph[j]

LowerText(t) == [i \in DOMAIN t |-> Lower(t[i])]

\* backend.normalize_metadata_tokens, as a set
normalize_metadata_tokens(t) == UNION {MetaTokens(t[i]) : i \in DOMAIN t}

\* the number of tokens re.findall returns (with repetitions)
MetaTokenCount(t) == SumSeq([i \in DOMAIN t |-> Cardinality(MetaTokens(t[i]))])

\* overlap / denom >= 0.5 with denom = max(1, min(len(pattern), len(tokens)))
matches_registered_journal_metadata(t, registry) ==
    LET tokens == normalize_metadata_tokens(t)
    IN /\ registry # {}
       /\ tokens # {}
       /\ \E pattern \in registry :
            LET overlap == Cardinality(tokens \cap pattern)
                denom == Max(1, Min(Cardinality(pattern), Cardinality(tokens)))
            IN overlap >= 3 /\ 2 * overlap >= denom

\* register_journal_metadata_example: the signatures are kept in a list and
\* in a set at once, so the registry is the set of the signatures.
register_journal_metadata_example(t, registry) ==
    IF MetaTokenCount(t) < 3 THEN registry
    ELSE registry \cup {normalize_metadata_tokens(t)}

\* The keys are compared after removing every blank and lowering the case;
\* over Words two texts have the same key exactly when their lowered words
\* are the same sequence.
SPECIAL_TITLE_TEXT ==
    <<"dropout", "p", "rediction", "m", "odel", "for", "c", "ollege", "s", "tudents", "in",
      "moocs", "b", "ased", "on", "weight", "ed", "m", "ulti-feature", "and", "svm">>
REQUIRED_JOURNAL_METADATA_LINE == TxtRequiredLine

SPECIAL_TEXT_TO_SECTION(key) ==
    CASE key = SPECIAL_TITLE_TEXT -> "title"
      [] key = LowerText(REQUIRED_JOURNAL_METADATA_LINE) -> "journal_metadata"
      [] key = LowerText(TxtWebEng) -> "journal_name"
      [] OTHER -> ""

normalize_special_key(t) == LowerText(t)

\* ------------------------------------------------------------------------
\* classify_section_type

ROLE_TAG_TO_SECTION(tag) ==
    CASE tag = "jiwe:journal-header" -> "journal_name"
      [] tag = "jiwe:journal-metadata" -> "journal_metadata"
      [] tag = "jiwe:title" -> "title"
      [] tag = "jiwe:subtitle" -> "subtitle"
      [] tag = "jiwe:authors" -> "authors"
      [] tag = "jiwe:affiliation" -> "affiliation"
      [] tag = "jiwe:corresponding" -> "corresponding_author"
      [] tag = "jiwe:abstract" -> "abstract"
      [] tag = "jiwe:keywords" -> "keywords"
      [] tag = "jiwe:submission-history" -> "submission_history"
      [] tag = "jiwe:figure-caption" -> "figure_caption"
      [] tag = "jiwe:table-caption" -> "table_caption"
      [] tag = "jiwe:ack-text" -> "acknowledgement"
      [] tag = "jiwe:funding-text" -> "funding statement"
      [] tag = "jiwe:contrib" -> "author contributions"
      [] tag = "jiwe:conflict" -> "conflict of interests"
      [] tag = "jiwe:ethics" -> "ethics statements"
      [] tag = "jiwe:reference" -> "references"
      [] tag = "jiwe:bio" -> "biographies of authors"
      [] OTHER -> ""

SECTION_TO_ROLE(section) ==
    CASE section = "journal_name" -> "jiwe:journal-header"
      [] section = "journal_metadata" -> "jiwe:journal-metadata"
      [] section = "title" -> "jiwe:title"
      [] section = "subtitle" -> "jiwe:subtitle"
      [] section = "authors" -> "jiwe:authors"
      [] section = "affiliation" -> "jiwe:affiliation"
      [] section = "corresponding_author" -> "jiwe:corresponding"
      [] section = "abstract" -> "jiwe:abstract"
      [] section = "keywords" -> "jiwe:keywords"
      [] section = "submission_history" -> "jiwe:submission-history"
      [] section = "figure_caption" -> "jiwe:figure-caption"
      [] section = "table_caption" -> "jiwe:table-caption"
      [] section = "acknowledgement" -> "jiwe:ack-text"
      [] section = "funding statement" -> "jiwe:funding-text"
      [] section = "author contributions" -> "jiwe:contrib"
      [] section = "conflict of interests" -> "jiwe:conflict"
      [] section = "ethics statements" -> "jiwe:ethics"
      [] section = "references" -> "jiwe:reference"
      [] OTHER -> ""

LEVEL1_HEADINGS ==
    {"introduction", "literature review", "research methodology", "results and discussions",
     "conclusion", "acknowledgement", "funding statement", "author contributions",
     "conflict of interests", "ethics statements", "references"}

\* role_tag.split()[0] of a lower-case role tag
PrimaryRole(tag) ==
    CASE tag = "jiwe:heading level=1" -> "jiwe:heading"
      [] tag = "jiwe:heading level=2" -> "jiwe:heading"
      [] tag = "jiwe:heading level=3" -> "jiwe:heading"
      [] OTHER -> tag

\* the section the prefix of a primary role stands for, when the table has
\* neither the tag nor the primary role
RolePrefixSection(primary) ==
    CASE primary \in {"jiwe:heading", "jiwe:heading-level-1"} -> "main_heading"
      [] primary \in {"jiwe:journal-header-line"} -> "journal_name"
      [] primary \in {"jiwe:journal-metadata-line"} -> "journal_metadata"
      [] primary \in {"jiwe:body", "jiwe:body-text"} -> "body_text"
      [] OTHER -> ""

section_keywords ==
    << <<"abstract", << <<"abstract">> >> >>,
       <<"keywords", << <<"keywords">>, <<"keyword">> >> >>,
       <<"affiliation", << <<"affiliation">>, <<"department", "of">>, <<"faculty", "of">>,
                           <<"school", "of">> >> >>,
       <<"introduction", << <<"introduction">> >> >>,
       <<"subtitle", << <<"subtitle">> >> >>,
       <<"literature review", << <<"literature", "review">>, <<"related", "work">> >> >>,
       <<"research methodology", << <<"research", "methodology">>, <<"methodology">>,
                                    <<"methods">> >> >>,
       <<"results and discussions", << <<"results", "and", "discussions">>, <<"results">>,
                                       <<"discussion">> >> >>,
       <<"conclusion", << <<"conclusion">>, <<"conclusions">> >> >>,
       <<"acknowledgement", << <<"acknowledgement">>, <<"acknowledgments">>,
                               <<"acknowledgement">> >> >>,
       <<"funding statement", << <<"funding", "statement">>, <<"funding">> >> >>,
       <<"author contributions", << <<"author", "contributions">>, <<"contributions">> >> >>,
       <<"conflict of interests", << <<"conflict", "of", "interests">>,
                                     <<"conflicts", "of", "interest">>,
                                     <<"competing", "interests">> >> >>,
       <<"ethics statements", << <<"ethics", "statements">>, <<"ethical", "statement">>,
                                 <<"ethics">> >> >>,
       <<"references", << <<"references">>, <<"reference">>, <<"bibliography">> >> >> >>

all_keywords == UNION {Range(section_keywords[i][2]) : i \in DOMAIN section_keywords}

\* the first section, in dictionary order, one of whose keywords satisfies
\* Hit(section, keyword); "" when there is none
FirstSection(Hit(_, _)) ==
    With({i \in DOMAIN section_keywords :
            \E k \in Range(section_keywords[i][2]) : Hit(section_keywords[i][1], k)},
         LAMBDA hits :
            IF hits = {} THEN ""
            ELSE section_keywords[CHOOSE i \in hits : \A j \in hits : i <= j][1])

\* the lowered text without its leading numbering and bullet markers
Cleaned(t) ==
    LET c1 == IF t # <<>> /\ t[1] \in NumberingWords THEN Tail(t) ELSE t
        c2 == IF c1 # <<>> /\ c1[1] \in RomanWords THEN Tail(c1) ELSE c1
    IN IF c2 = <<>> THEN c2 ELSE <<StripLead(c2[1])>> \o Tail(c2)

\* re.sub(r"\s*\(.*?\)", " ", cleaned).strip(): every parenthesised group,
\* from a word opening one to the nearest word closing one, is removed
RECURSIVE RemoveParens(_)
RemoveParens(t) ==
    IF t = <<>> THEN <<>>
    ELSE IF t[1] \in OpenParenWords /\ \E j \in DOMAIN t : t[j] \in CloseParenWords
        THEN LET j == CHOOSE k \in DOMAIN t :
                        /\ t[k] \in CloseParenWords
                        /\ \A m \in 1..(k - 1) : t[m] \notin CloseParenWords
             IN RemoveParens(SubSeq(t, j + 1, Len(t)))
    ELSE <<t[1]>> \o RemoveParens(Tail(t))

titlecase_count(t) == Cardinality({i \in DOMAIN t : t[i] \in TitleCaseWords})
non_lower_words(t) == Cardinality({i \in DOMAIN t : t[i] \in NonLowerWords})

\* the paragraph styles of the model, and what the classifier reads of them
ParagraphStyles == {"", "Normal", "Title", "Subtitle", "Heading1"}
StyleHint(p_style) ==
    CASE p_style = "Subtitle" -> "subtitle"
      [] p_style = "Title" -> "title"
      [] p_style = "Heading1" -> "heading"
      [] OTHER -> ""

\* paragraph: [text, role_tag, font_size, p_style, index, alignment, bold];
\* font_size is optional, in hundredths of a point; registry is the value of
\* JOURNAL_METADATA_TOKEN_SETS at the time of the call
classify_text(paragraph, registry) ==
    With(Cleaned(paragraph.text), LAMBDA cleaned :
    LET text == paragraph.text
        idx == paragraph.index
        font_size == IF IsSome(paragraph.font_size) THEN Val(paragraph.font_size) ELSE 0
        hint == StyleHint(paragraph.p_style)
        Has(n) == ContainsPhrase(text, <<n>>)
        headingSects == <<"introduction", "abstract", "keywords", "conclusion", "references">>
        headingHits == {i \in DOMAIN headingSects :
                            \E j \in DOMAIN text : text[j] \in WordsWithWholeWord(headingSects[i])}
        StartHit(sect, kw) ==
            /\ \/ StartsWithPhrase(cleaned, kw)
               \/ /\ cleaned # <<>>
                  /\ cleaned[1] \in NumberPrefixWords
                  /\ StartsWithKeyword(Tail(cleaned), kw)
            /\ sect \in {"abstract", "keywords", "affiliation"} \/ Len(cleaned) <= 15
        AnyHit(sect, kw) == ContainsPhrase(text, kw)
    IN
    IF cleaned = <<>> THEN "body_text"
    ELSE IF \A i \in DOMAIN cleaned : cleaned[i] \in DigitPunctWords THEN "body_text"
    ELSE IF SumSeq([i \in DOMAIN cleaned |-> AlphaCount(cleaned[i])]) <= 2
            /\ TextLen(cleaned) <= 6 THEN "body_text"
    ELSE IF /\ ContainsPhrase(text, <<"font", "size">>)
            /\ ~Has("title") /\ ~Has("figure") /\ ~Has("table")
            /\ With(RemoveParens(cleaned), LAMBDA simplified_heading :
                    ~\E kw \in all_keywords :
                        \/ StartsWithPhrase(simplified_heading, kw)
                        \/ ContainsSpacedPhrase(simplified_heading, kw))
        THEN "body_text"
    ELSE IF idx <= 1 /\ Has("journal") THEN "journal_name"
    ELSE IF font_size >= 2000 THEN (IF idx <= 1 THEN "journal_name" ELSE "title")
    ELSE IF idx < 8 /\ \E tok \in {"vol.", "volume", "no.", "issue", "issn", "eissn", "doi"} :
                            Has(tok)
        THEN "journal_metadata"
    ELSE IF idx < 20 /\ matches_registered_journal_metadata(text, registry)
        THEN "journal_metadata"
    ELSE IF /\ idx < 20
            /\ ~Has("author")
            /\ \E term \in {"department", "faculty", "university", "institute", "school",
                            "jalan", "road", "street", "malaysia", "singapore", "taiwan",
                            "china", "india", "thailand", "tel", "fax", "postal", "address"} :
                    Has(term)
            /\ \E i \in DOMAIN text : text[i] \in DigitWords \cup CommaWords \cup SemicolonWords
        THEN "journal_metadata"
    ELSE IF hint = "subtitle" THEN "subtitle"
    ELSE IF hint = "title" THEN "title"
    ELSE IF hint = "heading"
        THEN (IF headingHits = {} THEN "main_heading"
              ELSE headingSects[CHOOSE i \in headingHits : \A j \in headingHits : i <= j])
    ELSE IF /\ cleaned[1] \in FigureWords
            /\ TextLen(text) < 300
            /\ ~\E term \in {"abstract", "keyword", "reference"} :
                    ContainsPhrase(cleaned, <<term>>)
        THEN "figure_caption"
    ELSE IF cleaned[1] \in TableWords /\ TextLen(text) < 300 THEN "table_caption"
    ELSE IF /\ idx < 8
            /\ paragraph.alignment = "center"
            /\ Len(text) >= 4
            /\ titlecase_count(text) >= 3
            /\ non_lower_words(text) >= Len(text) - 1
            /\ ~paragraph.bold
        THEN "title"
    ELSE IF FirstSection(StartHit) # "" THEN FirstSection(StartHit)
    ELSE IF /\ \/ text[1] \in NumberedGluedWords
               \/ text[1] \in NumberPrefixWords /\ Len(text) >= 2
                    /\ text[2] \in WordCharStartWords
            /\ TextLen(text) < 200
        THEN (IF FirstSection(AnyHit) # "" THEN FirstSection(AnyHit) ELSE "main_heading")
    ELSE IF idx < 12 /\ ((\E i \in DOMAIN text : text[i] \in AtWords) \/ Has("correspond"))
        THEN "corresponding_author"
    ELSE IF /\ idx < 12
            /\ \E i \in DOMAIN text : text[i] \in CommaWords
            /\ ~\E term \in {"department", "faculty", "school", "university"} : Has(term)
            /\ \E i \in 1..(Len(text) - 1) :
                    text[i] \in NameEndWords /\ text[i + 1] \in NameStartWords
        THEN "authors"
    ELSE IF \E term \in {"received:", "accepted:", "published:"} : Has(term)
        THEN "submission_history"
    ELSE IF /\ idx < 4
            /\ Len(text) > 2
            /\ titlecase_count(text) >= 2
            /\ ~\E term \in {"abstract", "keywords", "introduction", "conclusion",
                             "references"} : Has(term)
        THEN "title"
    ELSE "body_text")

\* classify_section_type without the rule of the heading tags the table
\* does not have
classify_section_type_table_only(paragraph, registry) ==
    LET role_tag == paragraph.role_tag
        primary_role == PrimaryRole(role_tag)
        mapped == IF ROLE_TAG_TO_SECTION(role_tag) # "" THEN ROLE_TAG_TO_SECTION(role_tag)
                  ELSE ROLE_TAG_TO_SECTION(primary_role)
        special_key == normalize_special_key(paragraph.text)
    IN IF role_tag # "" /\ mapped # "" THEN mapped
       ELSE IF SPECIAL_TEXT_TO_SECTION(special_key) # ""
            THEN SPECIAL_TEXT_TO_SECTION(special_key)
       ELSE IF paragraph.text = <<>> THEN "body_text"
       ELSE classify_text(paragraph, registry)

classify_section_type(paragraph, registry) ==
    LET role_tag == paragraph.role_tag
        primary_role == PrimaryRole(role_tag)
        mapped == IF ROLE_TAG_TO_SECTION(role_tag) # "" THEN ROLE_TAG_TO_SECTION(role_tag)
                  ELSE ROLE_TAG_TO_SECTION(primary_role)
        special_key == normalize_special_key(paragraph.text)
    IN IF role_tag # "" /\ mapped # "" THEN mapped
       ELSE IF role_tag # "" /\ RolePrefixSection(primary_role) # ""
            THEN RolePrefixSection(primary_role)
       ELSE IF SPECIAL_TEXT_TO_SECTION(special_key) # ""
            THEN SPECIAL_TEXT_TO_SECTION(special_key)
       ELSE IF paragraph.text = <<>> THEN "body_text"
       ELSE classify_text(paragraph, registry)

\* ------------------------------------------------------------------------
\* Formats: records of five optional fields

FormatKeys == {"font_size", "font_size_w_val", "font_name", "bold", "italic"}
EmptyFormat == [k \in FormatKeys |-> None]
Format(size, name, bold) ==
    [EmptyFormat EXCEPT !.font_size = size, !.font_name = name, !.bold = bold]

\* dict.update: the keys other has replace those of base
Update(base, other) ==
    With2(base, other, LAMBDA b, o : [k \in FormatKeys |-> IF IsSome(o[k]) THEN o[k] ELSE b[k]])
\* the keys base lacks are taken from other
FillMissing(base, other) ==
    With2(base, other, LAMBDA b, o : [k \in FormatKeys |-> IF IsSome(b[k]) THEN b[k] ELSE o[k]])

\* Counter(values).most_common(1)[0][0]: the most frequent value, the one
\* met first among equally frequent ones; values is not empty
most_common(values) ==
    With(values, LAMBDA vs :
    With([v \in Range(vs) |-> Cardinality({i \in DOMAIN vs : vs[i] = v})], LAMBDA count :
    With([v \in Range(vs) |-> CHOOSE i \in DOMAIN vs :
                                    vs[i] = v /\ \A j \in 1..(i - 1) : vs[j] # v],
         LAMBDA first :
        CHOOSE v \in Range(vs) :
            \A u \in Range(vs) :
                count[v] > count[u] \/ (count[v] = count[u] /\ first[v] <= first[u]))))

\* ------------------------------------------------------------------------
\* Template examples

is_valid_template_example(paragraph) ==
    LET text == paragraph.text
        alpha_chars == SumSeq([i \in DOMAIN text |-> AlphaCount(text[i])])
        digits == SumSeq([i \in DOMAIN text |-> DigitCount(text[i])])
        condensed == SumSeq([i \in DOMAIN text |-> WordLen(text[i])])
    IN /\ text # <<>>
       /\ alpha_chars # 0
       /\ ~(condensed > 0 /\ 10 * digits > 6 * condensed /\ alpha_chars < 6)

known_fonts ==
    << <<<<"palatino", "linotype">>, "Palatino Linotype">>,
       <<<<"times", "new", "roman">>, "Times New Roman">>,
       <<<<"arial">>, "Arial">>,
       <<<<"calibri">>, "Calibri">>,
       <<<<"cambria">>, "Cambria">> >>

infer_template_hints(paragraph_text) ==
    With(paragraph_text, LAMBDA text :
    LET first1 == {i \in 1..(Len(text) - 1) :
                        SizeHintBeforeFont(text[i]) >= 0
                        /\ text[i + 1] \in WordsStartingWith("size")}
        glued2 == {i \in 1..(Len(text) - 1) :
                        text[i] \in WordsEndingWith("font") /\ SizeGluedNumber(text[i + 1]) >= 0}
        apart2 == {i \in 1..(Len(text) - 2) :
                        /\ text[i] \in WordsEndingWith("font")
                        /\ Lower(text[i + 1]) = "size"
                        /\ LeadingNumber(text[i + 2]) >= 0}
        Least(S) == CHOOSE i \in S : \A j \in S : i <= j
        size == IF first1 # {} THEN Some(SizeHintBeforeFont(text[Least(first1)]))
                ELSE IF glued2 \cup apart2 = {} THEN None
                ELSE LET i == Least(glued2 \cup apart2)
                     IN IF i \in glued2 THEN Some(SizeGluedNumber(text[i + 1]))
                        ELSE Some(LeadingNumber(text[i + 2]))
        Flag(word) ==
            IF \/ ContainsPhrase(text, <<"not", word>>)
               \/ ContainsPhrase(text, <<"non-" \o word>>)
               \/ ContainsPhrase(text, <<"without", word>>)
            THEN Some(FALSE)
            ELSE IF ContainsPhrase(text, <<word>>) THEN Some(TRUE) ELSE None
        fontHits == {i \in DOMAIN known_fonts : ContainsPhrase(text, known_fonts[i][1])}
    IN IF text = <<>> THEN EmptyFormat
       ELSE [font_size |-> size,
             font_size_w_val |-> None,
             font_name |-> IF fontHits = {} THEN None
                           ELSE Some(known_fonts[Least(fontHits)][2]),
             bold |-> Flag("bold"),
             italic |-> Flag("italic")])

\* the score in units of 1/120, the floating-point rounding of equal sums
\* told apart by FloatRoundedUp
score_template_example(section_type, paragraph) ==
    With(infer_template_hints(paragraph.text), LAMBDA hints :
    LET text == paragraph.text
        B(c, h) == IF c THEN h ELSE 0
        halves ==
            B(IsSome(paragraph.font_size) /\ Val(paragraph.font_size) # 0, 4)
            + B(IsSome(paragraph.font_name), 4)
            + B(paragraph.bold, 3)
            + B(paragraph.italic, 1)
            + B(hints.bold = Some(TRUE), 3)
            + B(IsSome(hints.font_size), 2)
            + B(IsSome(hints.font_name), 2)
            + B(hints.italic = Some(TRUE), 1)
            + B(section_type \in {"title", "main_heading"} /\ paragraph.bold, 3)
            + B(section_type = "title" /\ ContainsPhrase(text, <<"title">>), 2)
        letters == Min(SumSeq([i \in DOMAIN text |-> AlphaCount(text[i])]), 30)
    IN With2(halves, letters, LAMBDA h, l :
            2 * (30 * h + 2 * l) + B(<<h, l>> \in FloatRoundedUp, 1)))

\* ------------------------------------------------------------------------
\* Template profile

HARDCODED_SECTION_OVERRIDES(section_type) ==
    CASE section_type = "title" -> Format(Some(2400), None, Some(FALSE))
      [] section_type = "journal_metadata" -> Format(Some(900), None, Some(FALSE))
      [] section_type = "introduction" -> Format(None, None, Some(FALSE))
      [] section_type = "results and discussions" -> Format(None, None, Some(FALSE))
      [] section_type = "body_text" -> Format(None, None, Some(FALSE))
      [] section_type = "references" -> Format(Some(1000), None, Some(FALSE))
      [] section_type = "subtitle" -> Format(Some(1600), None, Some(FALSE))
      [] section_type = "funding statement" -> Format(None, None, Some(FALSE))
      [] OTHER -> EmptyFormat

SPECIAL_TEXT_FORMATTING_OVERRIDES(key) ==
    CASE key = SPECIAL_TITLE_TEXT -> Format(Some(2400), None, Some(FALSE))
      [] key = LowerText(REQUIRED_JOURNAL_METADATA_LINE) -> Format(Some(900), None, Some(FALSE))
      [] OTHER -> EmptyFormat

SECTION_TO_RULE_ROLE(section) ==
    CASE section = "title" -> "title"
      [] section = "journal_name" -> "journal-header"
      [] section = "journal_metadata" -> "journal-metadata"
      [] section = "subtitle" -> "subtitle"
      [] section = "authors" -> "authors"
      [] section = "affiliation" -> "affiliation"
      [] section = "corresponding_author" -> "corresponding"
      [] section = "abstract" -> "abstract"
      [] section = "keywords" -> "keywords"
      [] section = "submission_history" -> "submission-history"
      [] section = "body_text" -> "body"
      [] section = "figure_caption" -> "caption"
      [] section = "table_caption" -> "caption"
      [] section = "acknowledgement" -> "ack-text"
      [] section = "funding statement" -> "funding-text"
      [] section = "author contributions" -> "contrib"
      [] section = "conflict of interests" -> "conflict"
      [] section = "ethics statements" -> "ethics"
      [] section = "references" -> "reference"
      [] OTHER -> ""

TimesDefault(size, bold) == Format(Some(size), Some("Times New Roman"), Some(bold))
Italic(fmt) == [fmt EXCEPT !.italic = Some(TRUE)]

get_default_formatting(section_type) ==
    ensure_font_size_pair(
        CASE section_type = "title" -> TimesDefault(2400, FALSE)
          [] section_type = "subtitle" -> TimesDefault(1600, FALSE)
          [] section_type = "authors" -> TimesDefault(1100, TRUE)
          [] section_type = "affiliation" -> TimesDefault(900, FALSE)
          [] section_type = "corresponding_author" -> Italic(TimesDefault(900, FALSE))
          [] section_type = "submission_history" -> Italic(TimesDefault(900, FALSE))
          [] section_type = "journal_name" ->
                Format(Some(2400), Some("Palatino Linotype"), Some(TRUE))
          [] section_type = "journal_metadata" -> TimesDefault(900, FALSE)
          [] section_type = "abstract" -> TimesDefault(900, FALSE)
          [] section_type = "keywords" -> Italic(TimesDefault(900, FALSE))
          [] section_type = "introduction" -> TimesDefault(1000, FALSE)
          [] section_type = "literature review" -> TimesDefault(1000, TRUE)
          [] section_type = "research methodology" -> TimesDefault(1000, TRUE)
          [] section_type = "results and discussions" -> TimesDefault(1000, FALSE)
          [] section_type = "conclusion" -> TimesDefault(1000, TRUE)
          [] section_type = "acknowledgement" -> TimesDefault(1000, TRUE)
          [] section_type = "funding statement" -> TimesDefault(1000, FALSE)
          [] section_type = "author contributions" -> TimesDefault(1000, TRUE)
          [] section_type = "conflict of interests" -> TimesDefault(1000, TRUE)
          [] section_type = "ethics statements" -> TimesDefault(1000, TRUE)
          [] section_type = "biographies of authors" -> TimesDefault(1000, TRUE)
          [] section_type = "main_heading" -> TimesDefault(1000, TRUE)
          [] section_type = "figure_caption" -> TimesDefault(1000, FALSE)
          [] section_type = "table_caption" -> TimesDefault(1000, FALSE)
          [] section_type = "references" -> TimesDefault(1000, FALSE)
          [] OTHER -> TimesDefault(1000, FALSE))

\* the formatting of an extracted paragraph, as a format
ParagraphFormat(ex) ==
    [font_size |-> ex.font_size, font_size_w_val |-> ex.font_size_w_val,
     font_name |-> ex.font_name, bold |-> Some(ex.bold), italic |-> Some(ex.italic)]

RECURSIVE MergeHints(_)
\* hints.update(infer_template_hints(text)) over the examples in order
MergeHints(examples) ==
    IF examples = <<>> THEN EmptyFormat
    ELSE With(SubSeq(examples, 1, Len(examples) - 1), LAMBDA earlier :
            Update(MergeHints(earlier), infer_template_hints(examples[Len(examples)].text)))

\* examples is not empty
determine_section_formatting(section_type, examples) ==
    With(SelectSeq(examples, is_valid_template_example), LAMBDA valid :
    With(IF valid = <<>> THEN examples ELSE valid, LAMBDA valid_examples :
    With([i \in DOMAIN valid_examples |->
            score_template_example(section_type, valid_examples[i])], LAMBDA score :
    LET Choice(key) ==
            With(SelectSeq([i \in DOMAIN valid_examples |->
                                ParagraphFormat(valid_examples[i])[key]], IsSome),
                 LAMBDA values : IF values = <<>> THEN None ELSE most_common(values))
        formatting == [key \in FormatKeys |-> Choice(key)]
        hinted == FillMissing(formatting, MergeHints(valid_examples))
        \* max() keeps the first of the examples with the highest score
        best == CHOOSE i \in DOMAIN valid_examples :
                    \A j \in DOMAIN valid_examples :
                        score[i] > score[j] \/ (score[i] = score[j] /\ i <= j)
    IN ensure_font_size_pair(FillMissing(hinted, ParagraphFormat(valid_examples[best]))))))

heading_context_exclusions ==
    {"figure_caption", "table_caption", "journal_metadata", "journal_name"}

\* the context label of position i when every paragraph that is not body
\* text becomes the context, captions and journal lines too
ContextAt_any_label(labels, i) ==
    With({j \in 1..(i - 1) : labels[j] # "body_text"}, LAMBDA heads :
        IF heads = {} THEN "" ELSE labels[CHOOSE j \in heads : \A k \in heads : k <= j])

\* last_context_section once the loop has gone through the labels, from the
\* value it had before them: a paragraph that is neither body text nor
\* excluded sets it to its label
RECURSIVE last_context_after(_, _)
last_context_after(labels, last_context_section) ==
    With2(labels, last_context_section, LAMBDA rest, last :
        IF rest = <<>> THEN last
        ELSE last_context_after(Tail(rest),
                                IF /\ Head(rest) # "body_text"
                                   /\ Head(rest) \notin heading_context_exclusions
                                THEN Head(rest) ELSE last))

\* the context label of position i: last_context_section when the loop gets
\* to the paragraph, "" when it is None
ContextAt(labels, i) == last_context_after(SubSeq(labels, 1, i - 1), "")

RECURSIVE TemplateLabels(_, _)
\* the first pass of analyze_template_formatting: the labels of the
\* paragraphs and the registry it leaves behind
TemplateLabels(paragraphs, registry) ==
    IF paragraphs = <<>> THEN [labels |-> <<>>, registry |-> registry]
    ELSE With(classify_section_type(Head(paragraphs), registry), LAMBDA section_type :
         With(IF section_type = "journal_metadata"
              THEN register_journal_metadata_example(Head(paragraphs).text, registry)
              ELSE registry, LAMBDA after :
         With(Tail(paragraphs), LAMBDA tail :
         With(TemplateLabels(tail, after), LAMBDA rest :
            [labels |-> <<section_type>> \o rest.labels, registry |-> rest.registry]))))

RECURSIVE Distinct(_)
\* the elements of a sequence in the order of their first occurrences
Distinct(s) ==
    IF s = <<>> THEN <<>>
    ELSE With(SubSeq(s, 1, Len(s) - 1), LAMBDA earlier :
         With(Distinct(earlier), LAMBDA init :
            IF s[Len(s)] \in Range(init) THEN init ELSE Append(init, s[Len(s)])))

\* custom_rules is a function from rule roles to formats
analyze_template_formatting(template_paragraphs, custom_rules, registry) ==
    With(TemplateLabels(template_paragraphs, registry), LAMBDA pass :
    With([i \in DOMAIN pass.labels |-> ContextAt(pass.labels, i)], LAMBDA context :
    LET labels == pass.labels
        Examples(s) ==
            FilterOut(template_paragraphs, {i \in DOMAIN labels : labels[i] # s})
        ContextExamples(c) ==
            FilterOut(template_paragraphs,
                      {i \in DOMAIN labels : ~(labels[i] = "body_text" /\ context[i] = c)})
        contexts == {context[i] : i \in {j \in DOMAIN labels : labels[j] = "body_text"}} \ {""}
    IN With2([s \in Range(labels) |-> Examples(s)], [c \in contexts |-> ContextExamples(c)],
             LAMBDA raw_examples, context_examples :
        [profile |->
            [rules |-> [s \in DOMAIN raw_examples |->
                            determine_section_formatting(s, raw_examples[s])],
             section_order |-> Distinct(labels),
             raw_examples |-> raw_examples,
             custom_rules |-> custom_rules,
             context_rules |-> [c \in DOMAIN context_examples |->
                                    determine_section_formatting("body_text",
                                                                 context_examples[c])],
             context_examples |-> context_examples],
         registry |-> pass.registry])))

apply_special_text_overrides(section_type, paragraph_text, formatting) ==
    With(SPECIAL_TEXT_FORMATTING_OVERRIDES(normalize_special_key(paragraph_text)),
         LAMBDA overrides :
    With(Update(formatting, overrides), LAMBDA result :
        ensure_font_size_pair(
            IF IsSome(overrides.font_size) /\ ~IsSome(result.font_size_w_val)
            THEN [result EXCEPT !.font_size_w_val =
                                    Some(pt_to_half_points(Val(overrides.font_size)))]
            ELSE result)))

\* the best example for the text and its score in millionths; no example is
\* <<>>.  context_section is "" when there is none.
find_matching_example(profile, section_type, paragraph_text, context_section) ==
    With(IF /\ context_section # ""
            /\ section_type = "body_text"
            /\ context_section \in DOMAIN profile.context_examples
         THEN profile.context_examples[context_section] ELSE <<>>, LAMBDA ctx :
    With(IF ctx # <<>> THEN ctx
         ELSE IF section_type \in DOMAIN profile.raw_examples
              THEN profile.raw_examples[section_type] ELSE <<>>, LAMBDA examples :
    With([i \in DOMAIN examples |->
            MatchScore[TextId(examples[i].text)][TextId(paragraph_text)]], LAMBDA score :
    LET best == CHOOSE i \in DOMAIN examples :
                    \A j \in DOMAIN examples :
                        score[i] > score[j] \/ (score[i] = score[j] /\ i <= j)
    IN IF examples = <<>> THEN [example |-> <<>>, score |-> 0]
       ELSE IF score[best] >= 450000
            THEN [example |-> <<examples[best]>>, score |-> score[best]]
       ELSE [example |-> <<>>, score |-> score[best]])))

resolve_expected_format(profile, section_type, paragraph_text, context_section) ==
    LET rule_role == SECTION_TO_RULE_ROLE(section_type)
        override_fmt == HARDCODED_SECTION_OVERRIDES(section_type)
        \* of the labels, only these begin with "results and discussion" and
        \* with "references"
        results == section_type = "body_text" /\ context_section = "results and discussions"
        refs == section_type = "body_text" /\ context_section = "references"
    IN
    With(IF rule_role # "" /\ rule_role \in DOMAIN profile.custom_rules
         THEN profile.custom_rules[rule_role] ELSE EmptyFormat, LAMBDA base1 :
    With(IF section_type \in DOMAIN profile.rules
         THEN FillMissing(base1, profile.rules[section_type]) ELSE base1, LAMBDA base2 :
    With(IF /\ context_section # ""
            /\ section_type = "body_text"
            /\ context_section \in DOMAIN profile.context_rules
         THEN Update(base2, profile.context_rules[context_section]) ELSE base2, LAMBDA base3 :
    With(Update(base3, override_fmt), LAMBDA b :
    With(IF IsSome(override_fmt.font_size) /\ ~IsSome(b.font_size_w_val)
         THEN [b EXCEPT !.font_size_w_val =
                            Some(pt_to_half_points(Val(override_fmt.font_size)))]
         ELSE b, LAMBDA base4 :
    With(IF results THEN [base4 EXCEPT !.bold = Some(FALSE)] ELSE base4, LAMBDA base5 :
    With(IF refs
         THEN [base5 EXCEPT !.font_size = Some(900), !.bold = Some(FALSE),
                            !.font_size_w_val =
                                IF IsSome(@) THEN @ ELSE Some(pt_to_half_points(900))]
         ELSE base5, LAMBDA base6 :
    With(ensure_font_size_pair(base6), LAMBDA base7 :
    With(IF base7 = EmptyFormat
         THEN ensure_font_size_pair(
                IF "body_text" \in DOMAIN profile.rules
                THEN profile.rules["body_text"] ELSE EmptyFormat)
         ELSE base7, LAMBDA base8 :
    With(ensure_font_size_pair(FillMissing(base8, get_default_formatting(section_type))),
         LAMBDA base :
    With(find_matching_example(profile, section_type, paragraph_text, context_section),
         LAMBDA match :
    With(IF match.example = <<>> THEN base
         ELSE ensure_font_size_pair(FillMissing(base, ParagraphFormat(match.example[1]))),
         LAMBDA fmt :
        apply_special_text_overrides(section_type, paragraph_text,
                                     ensure_font_size_pair(fmt))))))))))))))

\* ------------------------------------------------------------------------
\* Findings

\* section.replace("_", " ").title() on the labels
format_section_label(section) ==
    CASE section = "title" -> "Title"
      [] section = "subtitle" -> "Subtitle"
      [] section = "authors" -> "Authors"
      [] section = "affiliation" -> "Affiliation"
      [] section = "corresponding_author" -> "Corresponding Author"
      [] section = "submission_history" -> "Submission History"
      [] section = "journal_name" -> "Journal Name"
      [] section = "journal_metadata" -> "Journal Metadata"
      [] section = "abstract" -> "Abstract"
      [] section = "keywords" -> "Keywords"
      [] section = "introduction" -> "Introduction"
      [] section = "literature review" -> "Literature Review"
      [] section = "research methodology" -> "Research Methodology"
      [] section = "results and discussions" -> "Results And Discussions"
      [] section = "conclusion" -> "Conclusion"
      [] section = "acknowledgement" -> "Acknowledgement"
      [] section = "funding statement" -> "Funding Statement"
      [] section = "author contributions" -> "Author Contributions"
      [] section = "conflict of interests" -> "Conflict Of Interests"
      [] section = "ethics statements" -> "Ethics Statements"
      [] section = "biographies of authors" -> "Biographies Of Authors"
      [] section = "main_heading" -> "Main Heading"
      [] section = "body_text" -> "Body Text"
      [] section = "figure_caption" -> "Figure Caption"
      [] section = "table_caption" -> "Table Caption"
      [] section = "references" -> "References"
      [] section = "" -> "previous section"
      [] OTHER -> section

\* A message is a text with the values formatted into it: labels, font
\* names in args, a list of indices in nums, a point size in pt (the number
\* format_pt_display writes) and a w:val in hp.
Msg(text, args) == [text |-> text, args |-> args, nums |-> <<>>, pt |-> None, hp |-> None]

\* "<pt> pt (w:val=<hp>)", "w:val=<hp>", "<pt> pt" or "Not detected"
format_font_size_display(pt, hp) ==
    IF IsSome(hp) \/ IsSome(pt) THEN [Msg("size", <<>>) EXCEPT !.pt = pt, !.hp = hp]
    ELSE Msg("Not detected", <<>>)

font_size_fix_text(expected_pt, expected_hp) ==
    IF IsSome(expected_pt)
        THEN [Msg("Set font size to", <<>>) EXCEPT !.pt = expected_pt]
    ELSE IF IsSome(expected_hp)
        THEN [Msg("Adjust font size to match w:val", <<>>) EXCEPT !.hp = expected_hp]
    ELSE Msg("Adjust font size to match the template", <<>>)

\* snippet is the paragraph text: no text of the model has more than 140
\* characters, the length text_snippet cuts at
create_finding(section, index, issue_type, found, expected, snippet, fix) ==
    [type |-> issue_type,
     section |-> section,
     paragraph_indices |-> <<index>>,
     pages |-> <<1 + (index \div 5)>>,
     found |-> found,
     expected |-> expected,
     snippet |-> snippet,
     suggested_fix |-> fix]

\* should_flag_font_size_mismatch comparing the point sizes only
should_flag_by_points(paragraph, expected) ==
    /\ IsSome(expected.font_size) /\ IsSome(paragraph.font_size)
    /\ LET d == Val(expected.font_size) - Val(paragraph.font_size)
       IN d >= 50 \/ d <= -50

should_flag_font_size_mismatch(paragraph, expected) ==
    IF IsSome(expected.font_size_w_val) /\ IsSome(paragraph.font_size_w_val)
        THEN Val(expected.font_size_w_val) # Val(paragraph.font_size_w_val)
    ELSE IF IsSome(expected.font_size) /\ IsSome(paragraph.font_size)
        THEN LET d == Val(expected.font_size) - Val(paragraph.font_size)
             IN d >= 50 \/ d <= -50
    ELSE FALSE

\* build_font_size_mismatch_finding showing the expected size for both
build_font_size_mismatch_finding_expected_twice(paragraph, expected, section_label) ==
    IF ~should_flag_font_size_mismatch(paragraph, expected) THEN <<>>
    ELSE <<create_finding(
                section_label, paragraph.index, "font_size_mismatch",
                format_font_size_display(expected.font_size, expected.font_size_w_val),
                format_font_size_display(expected.font_size, expected.font_size_w_val),
                paragraph.text,
                font_size_fix_text(expected.font_size, expected.font_size_w_val))>>

\* the finding in a sequence, or the empty sequence
build_font_size_mismatch_finding(paragraph, expected, section_label) ==
    IF ~should_flag_font_size_mismatch(paragraph, expected) THEN <<>>
    ELSE <<create_finding(
                section_label, paragraph.index, "font_size_mismatch",
                format_font_size_display(paragraph.font_size, paragraph.font_size_w_val),
                format_font_size_display(expected.font_size, expected.font_size_w_val),
                paragraph.text,
                font_size_fix_text(expected.font_size, expected.font_size_w_val))>>

header_must_not_be_bold ==
    {"acknowledgement", "acknowledgment", "introduction", "abstract", "conclusion",
     "references", "literature review", "research methodology", "results and discussions",
     "funding statement", "author contributions", "conflict of interests",
     "ethics statements", "biographies of authors", "main_heading"}

\* the same names as sequences of words
HeaderPhrases ==
    {<<"acknowledgement">>, <<"acknowledgment">>, <<"introduction">>, <<"abstract">>,
     <<"conclusion">>, <<"references">>, <<"literature", "review">>,
     <<"research", "methodology">>, <<"results", "and", "discussions">>,
     <<"funding", "statement">>, <<"author", "contributions">>,
     <<"conflict", "of", "interests">>, <<"ethics", "statements">>,
     <<"biographies", "of", "authors">>, <<"main_heading">>}

BoolText(b) == IF b THEN "True" ELSE "False"

\* check_formatting_mismatches holding a paragraph to the italic value
\* expected of it, whatever its section
check_formatting_mismatches_expected_italic(paragraph, section_type, expected_format, display_section) ==
    With(expected_format, LAMBDA expected :
    LET target_section == IF display_section # "" THEN display_section ELSE section_type
        wanted == IsSome(expected.bold) /\ Val(expected.bold)
        expected_bold ==
            IF section_type = "title" THEN wanted
            ELSE IF \E h \in HeaderPhrases : StartsWithPhrase(paragraph.text, h) THEN FALSE
            ELSE wanted
        expected_italic == IsSome(expected.italic) /\ Val(expected.italic)
        size == build_font_size_mismatch_finding(paragraph, expected, target_section)
        family ==
            IF /\ IsSome(expected.font_name) /\ IsSome(paragraph.font_name)
               /\ ~fonts_similar(Val(expected.font_name), Val(paragraph.font_name))
            THEN <<create_finding(
                        target_section, paragraph.index, "font_family_mismatch",
                        Msg("font", paragraph.font_name), Msg("font", expected.font_name),
                        paragraph.text, Msg("Set font to", expected.font_name))>>
            ELSE <<>>
        stray ==
            IF paragraph.bold
            THEN <<create_finding(
                        target_section, paragraph.index, "bold_incorrect",
                        Msg("bold", <<>>), Msg("not bold", <<>>), paragraph.text,
                        Msg("Remove bold formatting", <<>>))>>
            ELSE <<>>
        bold ==
            IF expected_bold # paragraph.bold
            THEN <<create_finding(
                        target_section, paragraph.index,
                        IF expected_bold /\ ~paragraph.bold THEN "bold_missing"
                        ELSE "bold_incorrect",
                        Msg(IF paragraph.bold THEN "bold" ELSE "not bold", <<>>),
                        Msg(IF expected_bold THEN "bold" ELSE "not bold", <<>>),
                        paragraph.text,
                        Msg("Set bold =", <<BoolText(expected_bold)>>))>>
            ELSE <<>>
        italic ==
            IF expected_italic /\ ~paragraph.italic
            THEN <<create_finding(
                        target_section, paragraph.index, "italic_missing",
                        Msg("not italic", <<>>), Msg("italic", <<>>), paragraph.text,
                        Msg("Set to italic", <<>>))>>
            ELSE IF ~expected_italic /\ paragraph.italic
            THEN <<create_finding(
                        target_section, paragraph.index, "italic_incorrect",
                        Msg("italic", <<>>), Msg("not italic", <<>>), paragraph.text,
                        Msg("Remove italic formatting", <<>>))>>
            ELSE <<>>
    IN IF section_type = "body_text" THEN size \o family \o stray
       ELSE bold \o italic \o size \o family)

check_formatting_mismatches(paragraph, section_type, expected_format, display_section) ==
    With(expected_format, LAMBDA expected :
    With(IF IsSome(expected.bold) THEN Val(expected.bold) ELSE FALSE, LAMBDA wanted :
    With(IF section_type = "title" THEN wanted
         ELSE IF \E h \in HeaderPhrases : StartsWithPhrase(paragraph.text, h) THEN FALSE
         ELSE wanted, LAMBDA expected_bold :
    LET target_section == IF display_section # "" THEN display_section ELSE section_type
        size == build_font_size_mismatch_finding(paragraph, expected, target_section)
        family ==
            IF /\ IsSome(expected.font_name) /\ IsSome(paragraph.font_name)
               /\ ~fonts_similar(Val(expected.font_name), Val(paragraph.font_name))
            THEN <<create_finding(
                        target_section, paragraph.index, "font_family_mismatch",
                        Msg("font", paragraph.font_name), Msg("font", expected.font_name),
                        paragraph.text, Msg("Set font to", expected.font_name))>>
            ELSE <<>>
        stray ==
            IF paragraph.bold
            THEN <<create_finding(
                        target_section, paragraph.index, "bold_incorrect",
                        Msg("bold", <<>>), Msg("not bold", <<>>), paragraph.text,
                        Msg("Remove bold formatting", <<>>))>>
            ELSE <<>>
        bold ==
            IF expected_bold # paragraph.bold
            THEN <<create_finding(
                        target_section, paragraph.index,
                        IF expected_bold /\ ~paragraph.bold THEN "bold_missing"
                        ELSE "bold_incorrect",
                        Msg(IF paragraph.bold THEN "bold" ELSE "not bold", <<>>),
                        Msg(IF expected_bold THEN "bold" ELSE "not bold", <<>>),
                        paragraph.text,
                        Msg("Set bold =", <<BoolText(expected_bold)>>))>>
            ELSE <<>>
        italic ==
            IF section_type \in {"keywords", "corresponding_author"}
            THEN (IF ~paragraph.italic
                  THEN <<create_finding(
                            target_section, paragraph.index, "italic_missing",
                            Msg("not italic", <<>>), Msg("italic", <<>>), paragraph.text,
                            Msg("Set to italic", <<>>))>>
                  ELSE <<>>)
            ELSE IF section_type \in header_must_not_be_bold \cup {"title", "references"}
            THEN (IF paragraph.italic
                  THEN <<create_finding(
                            target_section, paragraph.index, "italic_incorrect",
                            Msg("italic", <<>>), Msg("not italic", <<>>), paragraph.text,
                            Msg("Remove italic formatting", <<>>))>>
                  ELSE <<>>)
            ELSE <<>>
    IN IF section_type = "body_text" THEN size \o family \o stray
       ELSE bold \o italic \o size \o family)))

RECURSIVE Flatten(_)
\* the concatenation of a sequence of sequences
Flatten(ss) == With(ss, LAMBDA s : IF s = <<>> THEN <<>> ELSE Head(s) \o Flatten(Tail(s)))

\* labels are those of the manuscript paragraphs, in order
compare_against_template(manuscript_paragraphs, labels, profile) ==
    Flatten([i \in DOMAIN manuscript_paragraphs |->
        With(IF labels[i] = "body_text" THEN ContextAt(labels, i) ELSE "",
             LAMBDA context_section :
        With(resolve_expected_format(profile, labels[i], manuscript_paragraphs[i].text,
                                     context_section), LAMBDA resolved :
        LET para == manuscript_paragraphs[i]
            section_type == labels[i]
            expected == IF resolved = EmptyFormat THEN get_default_formatting(section_type)
                        ELSE resolved
            display_section ==
                IF section_type # "body_text" THEN section_type
                ELSE IF context_section # "" THEN "body_text::" \o context_section
                ELSE "body_text::general"
        IN check_formatting_mismatches(para, section_type, expected, display_section)))])


\* ------------------------------------------------------------------------
\* Structural checks

NotRequired ==
    {"body_text", "main_heading", "figure_caption", "table_caption", "submission_history",
     "journal_name", "journal_metadata", "subtitle"}

required_sections(profile) ==
    With(SelectSeq(profile.section_order, LAMBDA s : s \notin NotRequired), LAMBDA required :
        IF required = <<>> THEN <<"title", "abstract", "keywords", "references">>
        ELSE required)

\* check_missing_sections looking for the sections of the template only
check_missing_sections_template_only(labels, profile) ==
    Range(required_sections(profile)) \ Range(labels)

\* check_missing_sections looking for the two fixed sections only
check_missing_sections_fixed_only(labels, profile) ==
    {"acknowledgement", "funding statement"} \ Range(labels)

\* the set that check_missing_sections turns into a list
check_missing_sections(labels, profile) ==
    (Range(required_sections(profile)) \ Range(labels))
        \cup ({"acknowledgement", "funding statement"} \ Range(labels))

missing_section_finding(section_name) ==
    LET label == format_section_label(section_name)
    IN [type |-> "missing_section",
        section |-> section_name,
        paragraph_indices |-> <<>>,
        pages |-> <<>>,
        found |-> Msg("Section not found", <<>>),
        expected |->
            IF section_name = "acknowledgement"
                THEN Msg("Insert the highlighted acknowledgement heading and paragraph", <<>>)
            ELSE IF section_name = "funding statement"
                THEN Msg("Insert the highlighted funding statement heading and paragraph", <<>>)
            ELSE Msg("Add the section following the template order", <<label>>),
        snippet |-> <<>>,
        suggested_fix |->
            IF section_name = "acknowledgement"
                THEN Msg("Add an acknowledgement section using the default text", <<>>)
            ELSE IF section_name = "funding statement"
                THEN Msg("Add a funding statement section using the default text", <<>>)
            ELSE Msg("Insert a section matching template formatting", <<label>>)]

\* the position of the first paragraph with the label, 0 when there is none
FirstOccurrence(labels, section) ==
    IF section \notin Range(labels) THEN 0
    ELSE CHOOSE i \in DOMAIN labels : labels[i] = section /\ \A j \in 1..(i - 1) : labels[j] # section

RECURSIVE OrderPass(_, _, _, _, _)
\* the first loop of check_section_order over the remaining sections
OrderPass(sections, paragraphs, labels, last_index, last_section) ==
    IF sections = <<>> THEN <<>>
    ELSE With2(FirstOccurrence(labels, Head(sections)), Tail(sections), LAMBDA at, rest :
         LET section == Head(sections)
         IN IF at = 0
                THEN OrderPass(rest, paragraphs, labels, last_index, last_section)
            ELSE IF paragraphs[at].index < last_index
                THEN <<create_finding(
                            section, paragraphs[at].index, "section_order_mismatch",
                            Msg("Appears after", <<format_section_label(last_section)>>),
                            Msg("Before", <<format_section_label(last_section)>>),
                            paragraphs[at].text,
                            Msg("Move so it precedes",
                                <<format_section_label(section),
                                  format_section_label(last_section)>>))>>
                     \o OrderPass(rest, paragraphs, labels, last_index, last_section)
            ELSE With2(paragraphs[at].index, section, LAMBDA index, name :
                    OrderPass(rest, paragraphs, labels, index, name)))

check_section_order(manuscript_paragraphs, labels, profile) ==
    With(SelectSeq(profile.section_order,
                   LAMBDA s : s \in DOMAIN profile.rules
                              /\ s \notin {"body_text", "figure_caption", "table_caption"}),
         LAMBDA significant_sections :
    LET Occurrences(s) == {i \in DOMAIN labels : labels[i] = s}
        Duplicate(s) ==
            With(Occurrences(s) \ {FirstOccurrence(labels, s)}, LAMBDA extras :
            LET first_extra == CHOOSE i \in extras : \A j \in extras : i <= j
                kept == FilterOut(manuscript_paragraphs, DOMAIN labels \ extras)
            IN IF extras = {} THEN <<>>
               ELSE <<create_finding(
                            s, manuscript_paragraphs[first_extra].index, "section_duplicate",
                            [Msg("Paragraphs", <<>>) EXCEPT
                                !.nums = [i \in DOMAIN kept |-> kept[i].index]],
                            Msg("Single occurrence", <<>>),
                            manuscript_paragraphs[first_extra].text,
                            Msg("Retain one section matching the template sequence",
                                <<format_section_label(s)>>))>>)
        funding == FirstOccurrence(labels, "funding statement")
        references == FirstOccurrence(labels, "references")
    IN OrderPass(significant_sections, manuscript_paragraphs, labels, -1, "")
       \o Flatten([i \in DOMAIN significant_sections |-> Duplicate(significant_sections[i])])
       \o (IF /\ funding # 0 /\ references # 0
              /\ manuscript_paragraphs[funding].index >= manuscript_paragraphs[references].index
           THEN <<create_finding(
                        "funding statement", manuscript_paragraphs[funding].index,
                        "section_order_mismatch",
                        Msg("Does not appear immediately before References", <<>>),
                        Msg("Immediately precede References", <<>>),
                        manuscript_paragraphs[funding].text,
                        Msg("Move the funding statement section", <<>>))>>
           ELSE <<>>))

\* required_key in text_key: the line's words occur in a row in the text
ContainsRequiredLine(text) ==
    LET key == LowerText(REQUIRED_JOURNAL_METADATA_LINE)
    IN \E i \in 0..(Len(text) - Len(key)) :
            \A j \in DOMAIN key : Lower(text[i + j]) = key[j]

enforce_required_journal_metadata_line(manuscript_paragraphs, labels) ==
    With({i \in DOMAIN labels : labels[i] = "journal_metadata"}, LAMBDA metadata :
    LET first == CHOOSE i \in metadata : \A j \in metadata : i <= j
    IN IF \E i \in metadata : ContainsRequiredLine(manuscript_paragraphs[i].text) THEN <<>>
       ELSE <<create_finding(
                    "journal_metadata",
                    IF metadata # {} THEN manuscript_paragraphs[first].index ELSE 0,
                    "journal_metadata_missing_detail",
                    Msg("Required address line not found", <<>>),
                    Msg("Include the required line", <<>>),
                    IF metadata # {} THEN manuscript_paragraphs[first].text ELSE <<>>,
                    Msg("Insert the required line within the journal metadata block", <<>>))>>)

\* ------------------------------------------------------------------------
\* The content tree of a package
\*
\* A run property element (w:rPr) is a record of its children: sz and szCs
\* hold an optional w:val, rFonts an optional font name (its ascii
\* attribute), b and i tell whether the element is present, highlight holds
\* an optional colour.  A run holds its text and an optional w:rPr.  A
\* paragraph holds its style id and alignment ("" when absent), the optional
\* w:rPr of its w:pPr, its runs, and optionally the tag and alias of the
\* structured document tag (w:sdt) that wraps it.  A body element is a
\* paragraph ("p", one paragraph) or a table ("tbl", the paragraphs of its
\* cells in document order).

RPr(sz, szCs, rFonts, b, i, highlight) ==
    [sz |-> sz, szCs |-> szCs, rFonts |-> rFonts, b |-> b, i |-> i, highlight |-> highlight]
EmptyRPr == RPr(None, None, None, FALSE, FALSE, None)
Run(text, rPr) == [text |-> text, rPr |-> rPr]
Paragraph(pStyle, jc, rPr, runs) ==
    [pStyle |-> pStyle, jc |-> jc, rPr |-> rPr, runs |-> runs, sdt |-> None]
P(paragraph) == [kind |-> "p", paras |-> <<paragraph>>]
Tbl(paragraphs) == [kind |-> "tbl", paras |-> paragraphs]

\* findall(".//w:p"): the paragraphs of a body in document order
AllParagraphs(body) == Flatten([e \in DOMAIN body |-> body[e].paras])

\* the position in the body (element, paragraph within it) of the i-th
\* paragraph in document order, i counted from 1
RECURSIVE Locate(_, _, _)
Locate(body, e, i) ==
    IF i <= Len(body[e].paras) THEN <<e, i>> ELSE Locate(body, e + 1, i - Len(body[e].paras))

\* the body with its i-th paragraph in document order replaced
ReplaceParagraph(body, i, paragraph) ==
    With(Locate(body, 1, i), LAMBDA at : [body EXCEPT ![at[1]].paras[at[2]] = paragraph])

is_paragraph_wrapped(paragraph) == IsSome(paragraph.sdt)

\* the w:val of the w:tag of the wrapping w:sdt, "" when there is none
detect_paragraph_role(paragraph) ==
    IF IsSome(paragraph.sdt) THEN Val(paragraph.sdt).tag ELSE ""

\* "".join(texts) of the w:t of a paragraph is modelled with the runs' words
\* placed one after the other
RunTexts(paragraph) == Flatten([r \in DOMAIN paragraph.runs |-> paragraph.runs[r].text])

extract_run_formatting(run, paragraph, style_fonts, default_font) ==
    IF ~IsSome(run.rPr) THEN EmptyFormat
    ELSE
    LET rPr == Val(run.rPr)
        size_val == IF IsSome(rPr.sz) THEN rPr.sz ELSE rPr.szCs
        style_id == paragraph.pStyle
        font_name ==
            IF IsSome(rPr.rFonts) THEN Some(normalize_font_name(Val(rPr.rFonts)))
            ELSE IF IsSome(paragraph.rPr) /\ IsSome(Val(paragraph.rPr).rFonts)
                THEN Some(normalize_font_name(Val(Val(paragraph.rPr).rFonts)))
            ELSE IF style_id # "" /\ style_id \in DOMAIN style_fonts
                THEN Some(style_fonts[style_id])
            ELSE default_font
    IN [font_size |-> IF IsSome(size_val) THEN Some(half_points_to_pt(Val(size_val)))
                      ELSE None,
        font_size_w_val |-> size_val,
        font_name |-> font_name,
        bold |-> IF rPr.b THEN Some(TRUE) ELSE None,
        italic |-> IF rPr.i THEN Some(TRUE) ELSE None]

\* runs_data is a sequence of formats, one per run with text
get_dominant_formatting(formats) ==
    With(formats, LAMBDA runs_data :
    LET Pick(key, Keep(_)) ==
            SelectSeq([r \in DOMAIN runs_data |-> runs_data[r][key]], Keep)
        Truthy(o) == IsSome(o) /\ Val(o) # 0
        font_sizes == Pick("font_size", Truthy)
        font_size_vals == Pick("font_size_w_val", IsSome)
        font_names == Pick("font_name", IsSome)
        bold_count == Len(Pick("bold", IsSome))
        italic_count == Len(Pick("italic", IsSome))
        total_runs == Len(runs_data)
    IN IF runs_data = <<>> THEN EmptyFormat
       ELSE [font_size |->
                IF font_sizes # <<>> THEN most_common(font_sizes)
                ELSE IF font_size_vals # <<>>
                    THEN Some(half_points_to_pt(Val(most_common(font_size_vals))))
                ELSE None,
             font_size_w_val |->
                IF font_size_vals # <<>> THEN most_common(font_size_vals) ELSE None,
             font_name |-> IF font_names # <<>> THEN most_common(font_names) ELSE None,
             bold |-> IF 2 * bold_count > total_runs THEN Some(TRUE) ELSE None,
             italic |-> IF 2 * italic_count > total_runs THEN Some(TRUE) ELSE None])

\* index counts from 0; the result is optional: a paragraph without a run
\* that has text gives None
extract_paragraph_formatting(paragraph, index, style_fonts, default_font) ==
    With(SelectSeq(paragraph.runs, LAMBDA run : run.text # <<>>), LAMBDA runs :
    With(get_dominant_formatting(
            [r \in DOMAIN runs |->
                extract_run_formatting(runs[r], paragraph, style_fonts, default_font)]),
         LAMBDA dominant :
    LET p_style == paragraph.pStyle
        font_name ==
            IF IsSome(dominant.font_name) THEN dominant.font_name
            ELSE IF p_style # "" /\ p_style \in DOMAIN style_fonts
                THEN Some(style_fonts[p_style])
            ELSE default_font
    IN IF runs = <<>> THEN None
       ELSE Some([index |-> index,
                  text |-> RunTexts(paragraph),
                  p_style |-> p_style,
                  font_size |-> dominant.font_size,
                  font_size_w_val |-> dominant.font_size_w_val,
                  font_name |-> font_name,
                  bold |-> IsSome(dominant.bold),
                  italic |-> IsSome(dominant.italic),
                  role_tag |-> detect_paragraph_role(paragraph),
                  alignment |-> paragraph.jc])))

\* the extractor numbering the paragraphs it keeps, not the elements
extract_paragraphs_from_xml_renumbering(body, style_fonts, default_font) ==
    With(AllParagraphs(body), LAMBDA all :
    With(SelectSeq([i \in DOMAIN all |->
                        extract_paragraph_formatting(all[i], i - 1, style_fonts,
                                                     default_font)], IsSome),
         LAMBDA kept : [i \in DOMAIN kept |-> [Val(kept[i]) EXCEPT !.index = i - 1]]))

extract_paragraphs_from_xml(body, style_fonts, default_font) ==
    With(AllParagraphs(body), LAMBDA all :
    With(SelectSeq([i \in DOMAIN all |->
                        extract_paragraph_formatting(all[i], i - 1, style_fonts,
                                                     default_font)], IsSome),
         LAMBDA kept : [i \in DOMAIN kept |-> Val(kept[i])]))

\* ------------------------------------------------------------------------
\* Packages
\*
\* A package is a ZIP archive: readable tells whether it opens, names lists
\* its part names in archive order and parts gives each part's content.  The
\* content of a part is a record whose kind tells what the part parses to.

DocumentPart == "word/document.xml"
StylesPart == "word/styles.xml"
ContentTypesPart == "[Content_Types].xml"
RelsPart == "_rels/.rels"

MaxItemIndex == 3
ItemName(n) == "customXml/item" \o ToString(n) \o ".xml"
ItemPropsName(n) == "customXml/itemProps" \o ToString(n) \o ".xml"
ItemRelsName(n) == "customXml/_rels/item" \o ToString(n) \o ".xml.rels"
\* name.startswith("customXml/") and name.endswith(".xml")
IsCustomXml(name) == \E n \in 1..MaxItemIndex : name \in {ItemName(n), ItemPropsName(n)}

Package(names, parts) == [readable |-> TRUE, names |-> names, parts |-> parts]
NotAPackage == [readable |-> FALSE, names |-> <<>>, parts |-> <<>>]

Document(body) == [kind |-> "document", body |-> body]
Malformed == [kind |-> "malformed"]
HasPart(package, name) == \E i \in DOMAIN package.names : package.names[i] = name

\* docx_to_xml taking a package without its main content part for an empty
\* document
docx_to_xml_empty_when_absent(package) ==
    IF ~package.readable THEN None
    ELSE IF HasPart(package, DocumentPart) /\ package.parts[DocumentPart].kind = "document"
        THEN Some(package.parts[DocumentPart].body)
    ELSE Some(<<>>)

\* the body of the main content part, or None when the package does not
\* open, lacks the part or the part does not parse
docx_to_xml(package) ==
    IF /\ package.readable
       /\ HasPart(package, DocumentPart)
       /\ package.parts[DocumentPart].kind = "document"
    THEN Some(package.parts[DocumentPart].body)
    ELSE None

MaxPreviewParagraphs == 10
MaxPreviewRuns == 3
get_xml_preview(body) ==
    With(AllParagraphs(body), LAMBDA all :
    With(SubSeq(all, 1, Min(MaxPreviewParagraphs, Len(all))), LAMBDA paragraphs :
    LET RunLine(run) ==
            IF ~IsSome(run.rPr) THEN None
            ELSE LET rPr == Val(run.rPr)
                 IN Some([size |-> IF IsSome(rPr.sz) THEN Some(half_points_to_pt(Val(rPr.sz)))
                                   ELSE None,
                          font |-> IF IsSome(rPr.rFonts)
                                   THEN Some(normalize_font_name(Val(rPr.rFonts))) ELSE None,
                          bold |-> rPr.b,
                          italic |-> rPr.i])
    IN [i \in DOMAIN paragraphs |->
            LET p == paragraphs[i]
                runs == SubSeq(p.runs, 1, Min(MaxPreviewRuns, Len(p.runs)))
            IN [index |-> i - 1,
                text |-> RunTexts(p),
                style |-> p.pStyle,
                runs |-> [r \in DOMAIN runs |-> RunLine(runs[r])]]]))

\* ---- word/styles.xml ----
\* default_font is the font of w:docDefaults, styles the w:style elements:
\* their id, type ("" when absent), optional font and w:basedOn id

Styles(default_font, styles) ==
    [kind |-> "styles", default_font |-> default_font, styles |-> styles]
Style(styleId, type, rFonts, basedOn) ==
    [styleId |-> styleId, type |-> type, rFonts |-> rFonts, basedOn |-> basedOn]

RECURSIVE StyleFonts(_, _, _)
StyleFonts(styles, default_font, style_fonts) ==
    IF styles = <<>> THEN style_fonts
    ELSE LET style == Head(styles)
             own == IF IsSome(style.rFonts)
                    THEN Some(normalize_font_name(Val(style.rFonts))) ELSE None
             based == IF IsSome(own) THEN own
                      ELSE IF style.basedOn # "" /\ style.basedOn \in DOMAIN style_fonts
                          THEN Some(style_fonts[style.basedOn])
                      ELSE None
             font_name == IF IsSome(based) THEN based ELSE default_font
             skip == style.styleId = "" \/ style.type \notin {"", "paragraph"}
         IN With2(Tail(styles),
                  IF skip \/ ~IsSome(font_name) THEN style_fonts
                  ELSE (style.styleId :> Val(font_name)) @@ style_fonts,
                  LAMBDA rest, fonts : StyleFonts(rest, default_font, fonts))

NoStyleFonts == [style_fonts |-> <<>>, default_font |-> None]

load_style_fonts(package) ==
    IF ~package.readable \/ ~HasPart(package, StylesPart) THEN NoStyleFonts
    ELSE IF package.parts[StylesPart].kind # "styles" THEN NoStyleFonts
    ELSE With(package.parts[StylesPart], LAMBDA part :
         With(IF IsSome(part.default_font)
              THEN Some(normalize_font_name(Val(part.default_font))) ELSE None,
              LAMBDA default_font :
                [style_fonts |-> StyleFonts(part.styles, default_font, <<>>),
                 default_font |-> default_font]))

\* ---- the rules part ----
\* fonts are the font elements: role, family and weight ("" when absent),
\* optional sizePt, style ("" when absent)

FontRule(role, family, sizePt, weight, style) ==
    [role |-> role, family |-> family, sizePt |-> sizePt, weight |-> weight, style |-> style]
Rules(fonts) == [kind |-> "rules", fonts |-> fonts]

FontInfo(font_elem) ==
    [font_size |-> font_elem.sizePt,
     font_size_w_val |-> IF IsSome(font_elem.sizePt)
                         THEN Some(pt_to_half_points(Val(font_elem.sizePt))) ELSE None,
     font_name |-> IF font_elem.family # ""
                   THEN Some(normalize_font_name(font_elem.family)) ELSE None,
     bold |-> IF font_elem.weight # "" THEN Some(font_elem.weight = "bold") ELSE None,
     italic |-> IF font_elem.style = "italic" THEN Some(TRUE)
                ELSE IF font_elem.style = "normal" THEN Some(FALSE)
                ELSE None]

RECURSIVE RulesOf(_, _)
RulesOf(fonts, rules) ==
    IF fonts = <<>> THEN rules
    ELSE LET font_elem == Head(fonts)
         IN With2(Tail(fonts),
                  IF font_elem.role = "" THEN rules
                  ELSE (font_elem.role :> FontInfo(font_elem)) @@ rules,
                  LAMBDA rest, found : RulesOf(rest, found))

IsRulesPart(package, name) == IsCustomXml(name) /\ package.parts[name].kind = "rules"

\* the rules of the first rules part in archive order; no rules when the
\* package does not open or has no such part
load_custom_rules(package) ==
    With({i \in DOMAIN package.names : IsRulesPart(package, package.names[i])},
         LAMBDA found :
            IF ~package.readable \/ found = {} THEN <<>>
            ELSE With(CHOOSE i \in found : \A j \in found : i <= j, LAMBDA first :
                    RulesOf(package.parts[package.names[first]].fonts, <<>>)))

has_custom_rules(package) ==
    \E i \in DOMAIN package.names : IsRulesPart(package, package.names[i])

\* ------------------------------------------------------------------------
\* Tagging of a template file

section_alias(section) == IF section = "" THEN "Content" ELSE format_section_label(section)

\* the role tag to wrap a paragraph of this section with, "" for none
determine_role_for_section(section, text) ==
    IF section = "" THEN ""
    ELSE IF SECTION_TO_ROLE(section) # "" THEN SECTION_TO_ROLE(section)
    ELSE IF section \in LEVEL1_HEADINGS THEN "jiwe:heading level=1"
    ELSE IF section = "main_heading"
        THEN (IF text # <<>> /\ text[1] \in DeepNumberWords THEN "jiwe:heading level=3"
              ELSE "jiwe:heading level=2")
    ELSE ""

wrap_paragraph_with_sdt(paragraph, role, alias) ==
    [paragraph EXCEPT !.sdt = Some([tag |-> role, alias |-> alias])]

NsRules == "https://spec.jiwe.example/v1"

build_rules_xml ==
    Rules(<<FontRule("title", "Times New Roman", Some(2400), "bold", ""),
            FontRule("journal-header", "Palatino Linotype", Some(2400), "bold", ""),
            FontRule("journal-metadata", "Times New Roman", Some(900), "normal", ""),
            FontRule("subtitle", "Times New Roman", Some(1600), "normal", ""),
            FontRule("authors", "Times New Roman", Some(1100), "bold", ""),
            FontRule("affiliation", "Times New Roman", Some(900), "normal", ""),
            FontRule("corresponding", "Times New Roman", Some(900), "normal", "italic"),
            FontRule("abstract", "Times New Roman", Some(900), "normal", ""),
            FontRule("keywords", "Times New Roman", Some(900), "normal", "italic"),
            FontRule("body", "Times New Roman", Some(1000), "normal", ""),
            FontRule("heading-1", "Times New Roman", Some(1000), "bold", ""),
            FontRule("heading-2", "Times New Roman", Some(1000), "bold", ""),
            FontRule("heading-3", "Times New Roman", Some(1000), "bold", "italic"),
            FontRule("caption", "Times New Roman", Some(1000), "normal", ""),
            FontRule("reference", "Times New Roman", Some(1000), "normal", "")>>)

\* [Content_Types].xml holds its Override elements, a relationships part its
\* Relationship elements; the Id "rId<n>" is the number n
ContentTypes(overrides) == [kind |-> "content_types", overrides |-> overrides]
Relationships(relationships) == [kind |-> "rels", relationships |-> relationships]
Relationship(id, type, target) == [Id |-> id, Type |-> type, Target |-> target]

\* the parts add_rules_parts writes, in the order it returns them;
\* item_id is the identifier uuid4 draws
add_rules_parts(content_types, rels, existing_names, item_id) ==
    With({n \in 1..MaxItemIndex :
            \E i \in DOMAIN existing_names : existing_names[i] = ItemName(n)},
         LAMBDA existing_items :
    With(IF existing_items = {} THEN 1
         ELSE (CHOOSE n \in existing_items : \A m \in existing_items : m <= n) + 1,
         LAMBDA index :
    With({rels.relationships[i].Id : i \in DOMAIN rels.relationships}, LAMBDA rel_ids :
    LET new_id == IF Cardinality(rel_ids) + 1 \in rel_ids THEN Cardinality(rel_ids) + 2
                  ELSE Cardinality(rel_ids) + 1
    IN << <<ContentTypesPart,
            ContentTypes(content_types.overrides \o
                << [PartName |-> "/" \o ItemName(index), ContentType |-> "application/xml"],
                   [PartName |-> "/" \o ItemPropsName(index),
                    ContentType |-> "customXmlProperties+xml"] >>)>>,
          <<RelsPart,
            Relationships(Append(rels.relationships,
                                 Relationship(new_id, "customXml", ItemName(index))))>>,
          <<ItemName(index), build_rules_xml>>,
          <<ItemPropsName(index),
            [kind |-> "datastoreItem", itemID |-> item_id, schemaRef |-> NsRules]>>,
          <<ItemRelsName(index),
            Relationships(<<Relationship(1, "customXmlProps",
                                         "itemProps" \o ToString(index) \o ".xml")>>)>> >>)))

\* the paragraphs of a body, each one wrapped that has text, is not wrapped
\* yet and whose section has a role
TagBody(body, registry) ==
    [e \in DOMAIN body |->
        [body[e] EXCEPT !.paras =
            [k \in DOMAIN body[e].paras |->
                With2(body[e].paras[k], Len(AllParagraphs(SubSeq(body, 1, e - 1))) + k - 1,
                      LAMBDA p, idx :
                With(extract_paragraph_formatting(p, idx, <<>>, None), LAMBDA info :
                    IF ~IsSome(info) \/ is_paragraph_wrapped(p) THEN p
                    ELSE With(classify_section_type(Val(info), registry), LAMBDA section :
                         With(determine_role_for_section(section, Val(info).text),
                              LAMBDA role :
                            IF role = "" THEN p
                            ELSE wrap_paragraph_with_sdt(p, role, section_alias(section))))))]]]

\* the file at a path after ensure_template_tagging([changed, package]):
\* the package is rewritten when a paragraph was wrapped or the rules part
\* was missing, and left alone when anything fails
ensure_template_tagging(package, registry, item_id) ==
    LET unchanged == [changed |-> FALSE, package |-> package]
    IN
    IF ~IsSome(docx_to_xml(package)) THEN unchanged
    ELSE
    With(Val(docx_to_xml(package)), LAMBDA body :
    With2(TagBody(body, registry), ~has_custom_rules(package), LAMBDA tagged, need_rules :
    LET doc_modified == tagged # body
    IN
    IF ~doc_modified /\ ~need_rules THEN unchanged
    ELSE IF need_rules /\ (\/ ~HasPart(package, ContentTypesPart)
                           \/ ~HasPart(package, RelsPart)
                           \/ package.parts[ContentTypesPart].kind # "content_types"
                           \/ package.parts[RelsPart].kind # "rels")
        THEN unchanged
    ELSE
    With(IF need_rules
         THEN add_rules_parts(package.parts[ContentTypesPart], package.parts[RelsPart],
                              package.names, item_id)
         ELSE <<>>, LAMBDA extra :
    LET Kept(name) == /\ name # DocumentPart
                      /\ ~(need_rules /\ name \in {ContentTypesPart, RelsPart})
        kept == SelectSeq(package.names, Kept)
        Content(name) ==
            IF name = DocumentPart THEN Document(tagged)
            ELSE IF \E i \in DOMAIN extra : extra[i][1] = name
                THEN extra[CHOOSE i \in DOMAIN extra : extra[i][1] = name][2]
            ELSE package.parts[name]
    IN With(kept \o <<DocumentPart>> \o [i \in DOMAIN extra |-> extra[i][1]], LAMBDA names :
            [changed |-> TRUE,
             package |-> Package(names, [name \in Range(names) |-> Content(name)])]))))

\* ------------------------------------------------------------------------
\* analyze_documents

\* What analyze_documents computes from the paragraphs of the two documents
\* and the registry it finds: the comparator findings, the set of missing
\* sections, the structural findings, and the registry it leaves behind.
AnalysisOf(template_paragraphs, custom_rules, manuscript_paragraphs, registry) ==
    With(analyze_template_formatting(template_paragraphs, custom_rules, registry),
         LAMBDA built :
    With([i \in DOMAIN manuscript_paragraphs |->
            classify_section_type(manuscript_paragraphs[i], built.registry)], LAMBDA labels :
    LET profile == built.profile
    IN [profile |-> profile,
        labels |-> labels,
        findings |-> compare_against_template(manuscript_paragraphs, labels, profile),
        missing |-> check_missing_sections(labels, profile),
        order_issues |-> check_section_order(manuscript_paragraphs, labels, profile),
        metadata_issues |->
            enforce_required_journal_metadata_line(manuscript_paragraphs, labels),
        registry |-> built.registry]))

\* list(missing) of a set: its elements in one of their orders
Orderings(S) ==
    {s \in [1..Cardinality(S) -> S] : \A i, j \in DOMAIN s : s[i] = s[j] => i = j}

ParseError == "Error: Could not parse documents"

\* the paragraphs extracted from a package that parses
ParagraphsOf(package) ==
    With2(load_style_fonts(package), Val(docx_to_xml(package)), LAMBDA fonts, body :
        extract_paragraphs_from_xml(body, fonts.style_fonts, fonts.default_font))

Parses(package) == IsSome(docx_to_xml(package))

\* the analysis analyze_documents runs on two packages that parse; the
\* template is the package as load_custom_rules and docx_to_xml find it
AnalysisOfPackages(template, manuscript, registry) ==
    With2(ParagraphsOf(template), ParagraphsOf(manuscript),
          LAMBDA template_paragraphs, manuscript_paragraphs :
    With(load_custom_rules(template), LAMBDA custom_rules :
        AnalysisOf(template_paragraphs, custom_rules, manuscript_paragraphs, registry)))

\* the analysis of two packages, when both parse
Analysis(template, manuscript, registry) ==
    IF Parses(template) /\ Parses(manuscript)
    THEN Some(AnalysisOfPackages(template, manuscript, registry))
    ELSE None

\* the sets of missing sections analyze_documents can list
MissingOf(analysis) == IF IsSome(analysis) THEN Val(analysis).missing ELSE {}

\* the triple analyze_documents returns (findings, missing, xml_previews)
\* and the registry it leaves behind, from the analysis, the registry it
\* found and the order missing_list of the missing sections
Returned(analysis, template, manuscript, registry, missing_list) ==
    IF ~IsSome(analysis)
    THEN [findings |-> <<>>, missing |-> <<ParseError>>, xml_previews |-> None,
          registry |-> registry]
    ELSE LET a == Val(analysis)
             t_body == Val(docx_to_xml(template))
             m_body == Val(docx_to_xml(manuscript))
         IN [findings |-> a.findings
                          \o [i \in DOMAIN missing_list |->
                                missing_section_finding(missing_list[i])]
                          \o a.order_issues \o a.metadata_issues,
             missing |-> missing_list,
             xml_previews |-> Some([template |-> get_xml_preview(t_body),
                                    manuscript |-> get_xml_preview(m_body),
                                    template_full |-> t_body,
                                    manuscript_full |-> m_body]),
             registry |-> a.registry]

analyze_documents(template, manuscript, registry, missing_list) ==
    Returned(Analysis(template, manuscript, registry), template, manuscript, registry,
             missing_list)

\* ------------------------------------------------------------------------
\* The mutators: highlight and corrections
\*
\* mistakes is the sequence of the rows of the findings table.

\* the main content part parsed, as the mutators read it: None when the bytes
\* are not an archive, the part is absent or it does not parse
document_tree(package) ==
    IF ~package.readable THEN None
    ELSE IF ~HasPart(package, DocumentPart) THEN None
    ELSE IF package.parts[DocumentPart].kind # "document" THEN None
    ELSE Some(package.parts[DocumentPart].body)

\* the archive written with the main content part replaced and nothing else
write_package_document_only(package, body) ==
    Package(<<DocumentPart>>, (DocumentPart :> Document(body)))

\* the archive written from the input's entries in their order: the main
\* content part holds the updated tree, every other part its input bytes
write_package(package, body) ==
    Package(package.names,
            [name \in DOMAIN package.parts |->
                IF name = DocumentPart THEN Document(body) ELSE package.parts[name]])

\* the paragraphs of the body replaced by F(paragraph, index), index being the
\* paragraph's position in document order counted from 0
MapParagraphs(body, F(_, _)) ==
    With([e \in DOMAIN body |->
            SumSeq([d \in 1..(e - 1) |-> Len(body[d].paras)])], LAMBDA before :
        [e \in DOMAIN body |->
            [body[e] EXCEPT !.paras =
                [k \in DOMAIN body[e].paras |->
                    F(body[e].paras[k], before[e] + k - 1)]]])

\* a run given a second highlight element whenever it is marked
ensure_highlight_appending(run) ==
    With(IF IsSome(run.rPr) THEN Val(run.rPr) ELSE EmptyRPr, LAMBDA rPr :
        [run EXCEPT !.rPr = Some([rPr EXCEPT !.highlight = rPr.highlight \o <<"yellow">>])])

\* the w:highlight elements of a w:rPr are the sequence rPr.highlight of
\* their values: the first is set to yellow, and added when there is none
ensure_highlight(run) ==
    With(IF IsSome(run.rPr) THEN Val(run.rPr) ELSE EmptyRPr, LAMBDA rPr :
        [run EXCEPT !.rPr =
            Some([rPr EXCEPT !.highlight =
                    IF rPr.highlight = <<>> THEN <<"yellow">>
                    ELSE [rPr.highlight EXCEPT ![1] = "yellow"]])])

\* the keys of highlight_map: the indices of the rows whose paragraph_indices
\* is a list that is not empty
highlight_map(mistakes) ==
    UNION {Range(mistakes[m].paragraph_indices) : m \in DOMAIN mistakes}

\* the package returned (None when reading fails) and the debug record of
\* each flagged paragraph: its index and whether it was highlighted
highlight_mistakes(manuscript_file, mistakes) ==
    With(document_tree(manuscript_file), LAMBDA doc_tree :
    With(highlight_map(mistakes), LAMBDA flagged :
        IF ~IsSome(doc_tree) THEN [package |-> None, paragraphs |-> {}]
        ELSE With(Len(AllParagraphs(Val(doc_tree))), LAMBDA count :
            [package |->
                Some(write_package(
                    manuscript_file,
                    MapParagraphs(Val(doc_tree), LAMBDA paragraph, para_idx :
                        IF para_idx \in flagged
                        THEN [paragraph EXCEPT !.runs =
                                [r \in DOMAIN paragraph.runs |->
                                    ensure_highlight(paragraph.runs[r])]]
                        ELSE paragraph))),
             paragraphs |->
                {[paragraph_index |-> para_idx,
                  highlighted |-> (0 <= para_idx /\ para_idx < count)] :
                    para_idx \in flagged}])))

\* ---- corrections ----

\* the first number written in the message: the point size when the message
\* shows one, else the w:val, else the first index it lists; in hundredths
parse_expected_font_size(expected) ==
    IF IsSome(expected.pt) THEN expected.pt
    ELSE IF IsSome(expected.hp) THEN Some(100 * Val(expected.hp))
    ELSE IF expected.nums # <<>> THEN Some(100 * expected.nums[1])
    ELSE None

\* the message of a family finding is the font name itself; an empty
\* message gives None
parse_expected_font_name(expected) ==
    IF expected.text = "font" /\ expected.args # <<>> THEN Some(expected.args[1])
    ELSE None

\* the message texts of the findings that contain the pattern
MessagesContaining(pattern) ==
    CASE pattern = "bold" -> {"bold", "not bold", "Remove bold formatting", "Set bold ="}
      [] pattern = "not bold" -> {"not bold"}
      [] pattern = "italic" -> {"italic", "not italic", "Remove italic formatting",
                                "Set to italic"}
      [] pattern = "not italic" -> {"not italic"}
      [] OTHER -> {}

interpret_expected_flag(expected, keyword, default) ==
    IF \E pattern \in {"not " \o keyword, "non-" \o keyword, "without " \o keyword} :
            expected.text \in MessagesContaining(pattern)
        THEN FALSE
    ELSE IF expected.text \in MessagesContaining(keyword) THEN TRUE
    ELSE default

\* ensure_child(element, "rPr") followed by a setter, on an optional w:rPr
WithRPr(rPr, Set(_)) == Some(Set(IF IsSome(rPr) THEN Val(rPr) ELSE EmptyRPr))

apply_font_name_to_rpr(rPr, font_name) == [rPr EXCEPT !.rFonts = Some(font_name)]
apply_font_size_to_rpr(rPr, size_pt) ==
    [rPr EXCEPT !.sz = Some(pt_to_half_points(size_pt)),
                !.szCs = Some(pt_to_half_points(size_pt))]
apply_bold_to_rpr(rPr, bold_value) == [rPr EXCEPT !.b = bold_value]
apply_italic_to_rpr(rPr, italic_value) == [rPr EXCEPT !.i = italic_value]

\* Set applied to the w:rPr of every run and to that of the paragraph's w:pPr
SetAllRPr(paragraph, Set(_)) ==
    [paragraph EXCEPT
        !.runs = [r \in DOMAIN paragraph.runs |->
                    [paragraph.runs[r] EXCEPT !.rPr = WithRPr(paragraph.runs[r].rPr, Set)]],
        !.rPr = WithRPr(paragraph.rPr, Set)]

\* the paragraph after the correction, and whether one was applied
apply_xml_correction(paragraph_element, mistake) ==
    With2(paragraph_element, mistake, LAMBDA paragraph, row :
    LET correction_type == row.type
        expected == row.expected
        font_name == parse_expected_font_name(expected)
        size_pt == parse_expected_font_size(expected)
        Skipped == [paragraph |-> paragraph, applied |-> FALSE]
        Applied(Set(_)) == [paragraph |-> SetAllRPr(paragraph, Set), applied |-> TRUE]
    IN IF paragraph.runs = <<>> THEN Skipped
       ELSE IF correction_type = "font_family_mismatch"
           THEN (IF ~IsSome(font_name) THEN Skipped
                 ELSE Applied(LAMBDA rPr :
                        apply_font_name_to_rpr(rPr, normalize_font_name(Val(font_name)))))
       ELSE IF correction_type = "font_size_mismatch"
           THEN (IF ~IsSome(size_pt) THEN Skipped
                 ELSE Applied(LAMBDA rPr : apply_font_size_to_rpr(rPr, Val(size_pt))))
       ELSE IF correction_type \in {"bold_missing", "bold_incorrect", "bold_mismatch"}
           THEN Applied(LAMBDA rPr :
                    apply_bold_to_rpr(rPr, interpret_expected_flag(expected, "bold", TRUE)))
       ELSE IF correction_type \in {"italic_missing", "italic_incorrect", "italic_mismatch"}
           THEN Applied(LAMBDA rPr :
                    apply_italic_to_rpr(rPr, interpret_expected_flag(expected, "italic", TRUE)))
       ELSE Skipped)

\* corrections_map[para_idx]: the rows that list the index, a row once for
\* every time it lists it, in the order of the table
RECURSIVE CorrectionsFor(_, _)
CorrectionsFor(mistakes, para_idx) ==
    With(mistakes, LAMBDA rows :
        IF rows = <<>> THEN <<>>
        ELSE [k \in 1..Len(SelectSeq(Head(rows).paragraph_indices,
                                     LAMBDA idx : idx = para_idx)) |-> Head(rows)]
             \o CorrectionsFor(Tail(rows), para_idx))

\* the corrections of a paragraph applied one after the other: the paragraph
\* and the number of corrections applied
RECURSIVE ApplyAll(_, _, _)
ApplyAll(paragraph, rows, corrections_applied) ==
    IF rows = <<>> THEN [paragraph |-> paragraph, applied |-> corrections_applied]
    ELSE With(apply_xml_correction(paragraph, Head(rows)), LAMBDA step :
         With2(Tail(rows), corrections_applied + (IF step.applied THEN 1 ELSE 0),
               LAMBDA rest, applied : ApplyAll(step.paragraph, rest, applied)))

\* apply_corrections giving the input back as soon as a row lists a paragraph
\* the manuscript does not have
apply_corrections_aborting(manuscript_file, mistakes) ==
    With(document_tree(manuscript_file), LAMBDA doc_root :
        IF highlight_map(mistakes) = {} THEN None
        ELSE IF ~IsSome(doc_root) THEN None
        ELSE With(AllParagraphs(Val(doc_root)), LAMBDA all_paragraphs :
             With([i \in DOMAIN all_paragraphs |->
                    ApplyAll(all_paragraphs[i], CorrectionsFor(mistakes, i - 1), 0)],
                  LAMBDA done :
                IF \/ SumSeq([i \in DOMAIN done |-> done[i].applied]) = 0
                   \/ \E idx \in highlight_map(mistakes) :
                        idx < 0 \/ idx >= Len(all_paragraphs)
                THEN Some(manuscript_file)
                ELSE Some(write_package(
                        manuscript_file,
                        MapParagraphs(Val(doc_root), LAMBDA paragraph, para_idx :
                            done[para_idx + 1].paragraph))))))

\* the package returned: None when no row lists a paragraph or reading fails,
\* the input itself when no correction was applied
apply_corrections(manuscript_file, mistakes) ==
    With(document_tree(manuscript_file), LAMBDA doc_root :
        IF highlight_map(mistakes) = {} THEN None
        ELSE IF ~IsSome(doc_root) THEN None
        ELSE With(AllParagraphs(Val(doc_root)), LAMBDA all_paragraphs :
             With([i \in DOMAIN all_paragraphs |->
                    ApplyAll(all_paragraphs[i], CorrectionsFor(mistakes, i - 1), 0)],
                  LAMBDA done :
                IF SumSeq([i \in DOMAIN done |-> done[i].applied]) = 0
                THEN Some(manuscript_file)
                ELSE Some(write_package(
                        manuscript_file,
                        MapParagraphs(Val(doc_root), LAMBDA paragraph, para_idx :
                            done[para_idx + 1].paragraph))))))

\* ------------------------------------------------------------------------
\* The mutators: insertion of the missing sections
\*
\* The body is the sequence of the children of w:body.  body_paras, the list
\* of the w:p children the code keeps beside the tree, is the sequence of
\* their positions in the body, so that one element has one position in both.
\* A label that is None in the code is "" here.

canonical_tail ==
    <<"acknowledgement", "funding statement", "author contributions",
      "conflict of interests", "ethics statements", "references">>

default_blocks ==
    ("acknowledgement" :> [heading |-> TxtAckHeading, content |-> TxtAckBody])
    @@ ("funding statement" :> [heading |-> TxtFundHeading, content |-> TxtFundBody])

\* a paragraph of one run: Times New Roman, 10 pt
create_paragraph(text, bold, highlight) ==
    With(apply_font_size_to_rpr(apply_font_name_to_rpr(EmptyRPr, "Times New Roman"), 1000),
         LAMBDA sized :
    With(IF bold THEN apply_bold_to_rpr(sized, TRUE) ELSE sized, LAMBDA rPr :
        P(Paragraph("", "", None,
                    <<Run(text, Some(IF highlight THEN [rPr EXCEPT !.highlight = Some("yellow")]
                                     ELSE rPr))>>))))

\* the order of the template's sections followed by the canonical tail, and
\* the registry after the template was analysed; a template that does not
\* parse leaves the canonical tail
TemplateOrder(template_file, registry) ==
    IF ~IsSome(docx_to_xml(template_file))
    THEN [effective_order |-> canonical_tail, registry |-> registry]
    ELSE With(analyze_template_formatting(ParagraphsOf(template_file),
                                          load_custom_rules(template_file), registry),
              LAMBDA built :
            [effective_order |->
                Distinct(SelectSeq(built.profile.section_order,
                                   LAMBDA s : s \in DOMAIN built.profile.rules)
                         \o canonical_tail),
             registry |-> built.registry])

\* body.findall("./w:p"): the positions of the paragraphs that are children
\* of the body itself
DirectParagraphs(body) ==
    SelectSeq([e \in DOMAIN body |-> e],
              LAMBDA e : body[e].kind = "p" /\ ~is_paragraph_wrapped(body[e].paras[1]))

\* "".join of the w:t of a paragraph, compared with a text of one run: the
\* runs of a paragraph are joined without a space between them
PlainTextIs(paragraph, text) ==
    With(SelectSeq(paragraph.runs, LAMBDA run : run.text # <<>>), LAMBDA runs :
        Len(runs) = 1 /\ runs[1].text = text)

\* normalize_special_key(text).startswith("acknowledgement"): no word is a
\* proper prefix of the needle
StartsWithAcknowledgement(text) ==
    text # <<>> /\ text[1] \in WordsStartingWith("acknowledgement")

\* sections_by_index and body_context_sections
rebuild_section_maps(body, body_paras, fonts, registry) ==
    With([i \in DOMAIN body_paras |->
            With(extract_paragraph_formatting(body[body_paras[i]].paras[1], i - 1,
                                              fonts.style_fonts, fonts.default_font),
                 LAMBDA para_dict :
                    IF IsSome(para_dict) THEN classify_section_type(Val(para_dict), registry)
                    ELSE "")], LAMBDA sections :
    LET IsHeading(j) == sections[j] \notin {"", "body_text"} \cup heading_context_exclusions
        last_heading(i) ==
            With({j \in 1..(i - 1) : IsHeading(j)}, LAMBDA before :
                IF before = {} THEN ""
                ELSE sections[CHOOSE j \in before : \A k \in before : k <= j])
    IN [sections_by_index |-> sections,
        body_context_sections |->
            [i \in DOMAIN sections |->
                IF sections[i] = "body_text" THEN last_heading(i) ELSE ""]])

\* the paragraphs that belong to a section: its own and the body text under it
LogicalIndices(maps, section_name) ==
    {i \in DOMAIN maps.sections_by_index :
        \/ maps.sections_by_index[i] = section_name
        \/ /\ maps.sections_by_index[i] = "body_text"
           /\ maps.body_context_sections[i] = section_name}

\* indices count from 0; None when the section has no paragraph
logical_first_index(maps, section_name) ==
    With(LogicalIndices(maps, section_name), LAMBDA found :
        IF found = {} THEN None
        ELSE Some((CHOOSE i \in found : \A j \in found : i <= j) - 1))

logical_last_index(maps, section_name) ==
    With(LogicalIndices(maps, section_name), LAMBDA found :
        IF found = {} THEN None
        ELSE Some((CHOOSE i \in found : \A j \in found : j <= i) - 1))

\* the first of a sequence of options that is not None
RECURSIVE FirstSome(_)
FirstSome(options) ==
    With(options, LAMBDA os :
        IF os = <<>> THEN None
        ELSE IF IsSome(Head(os)) THEN Head(os)
        ELSE FirstSome(Tail(os)))

\* the least k >= from, k counted from 0, that is len or is not in go
SkipWhile(from, len, go) ==
    IF from >= len THEN from
    ELSE CHOOSE k \in from..len :
            (k = len \/ k \notin go) /\ \A j \in from..(k - 1) : j \in go

Reverse(s) == [i \in DOMAIN s |-> s[Len(s) + 1 - i]]

\* the index to insert at (None: append) and the index in body_paras of
\* funding_anchor_element (None when it is not set)
insertion_index_for(section_name, body, body_paras, maps, effective_order) ==
    With(maps.sections_by_index, LAMBDA sections :
    LET contexts == maps.body_context_sections
        Text(i) == RunTexts(body[body_paras[i + 1]].paras[1])
        s_idx == CHOOSE i \in DOMAIN effective_order : effective_order[i] = section_name
        references_idx == logical_first_index(maps, "references")
        starts == {i \in DOMAIN sections :
                        \/ sections[i] = "acknowledgement"
                        \/ sections[i] = "body_text" /\ contexts[i] = "acknowledgement"
                        \/ StartsWithAcknowledgement(RunTexts(body[body_paras[i]].paras[1]))}
        ack_start_idx == (CHOOSE i \in starts : \A j \in starts : i <= j) - 1
        ack_end_idx ==
            SkipWhile(ack_start_idx + 1, Len(sections),
                      {j \in 0..(Len(sections) - 1) :
                            \/ sections[j + 1] = "body_text"
                            \/ sections[j + 1] = "" /\ Text(j) = <<>>}) - 1
        insertion_point ==
            SkipWhile(ack_end_idx + 1, Len(sections),
                      {j \in 0..(Len(sections) - 1) :
                            /\ sections[j + 1] = "body_text"
                            /\ contexts[j + 1] = "acknowledgement"})
    IN IF \A i \in DOMAIN effective_order : effective_order[i] # section_name
           THEN [idx |-> None, anchor |-> None]
       ELSE IF section_name = "funding statement"
           THEN IF starts # {}
                THEN [idx |-> IF IsSome(references_idx) /\ insertion_point > Val(references_idx)
                              THEN references_idx ELSE Some(insertion_point),
                      anchor |-> Some(ack_end_idx)]
                ELSE [idx |-> IF IsSome(references_idx) THEN references_idx
                              ELSE Some(Len(body_paras)),
                      anchor |-> None]
       ELSE With(FirstSome([k \in 1..(Len(effective_order) - s_idx) |->
                                logical_first_index(maps, effective_order[s_idx + k])]),
                 LAMBDA next :
            IF IsSome(next) THEN [idx |-> Some(Max(0, Val(next))), anchor |-> None]
            ELSE With(FirstSome(Reverse([k \in 1..(s_idx - 1) |->
                                            logical_last_index(maps, effective_order[k])])),
                      LAMBDA last :
                    [idx |-> IF IsSome(last) THEN Some(Val(last) + 1) ELSE None,
                     anchor |-> None])))

\* list.insert(index, item)
ListInsert(list, index, item) ==
    With(Min(index, Len(list)), LAMBDA at :
        SubSeq(list, 1, at) \o <<item>> \o SubSeq(list, at + 1, Len(list)))

\* heading and content inserted in the body at child index tree_index and
\* the one after it, and in body_paras at list_index and the one after it
InsertBlock(body, body_paras, tree_index, list_index, heading, content) ==
    With(Min(tree_index, Len(body)), LAMBDA at :
        [body |-> ListInsert(ListInsert(body, at, heading), at + 1, content),
         body_paras |->
            ListInsert(ListInsert([k \in DOMAIN body_paras |->
                                        IF body_paras[k] > at THEN body_paras[k] + 2
                                        ELSE body_paras[k]],
                                  list_index, at + 1),
                       list_index + 1, at + 2)])

\* the body and body_paras after insert_section
insert_section(section_key, body, body_paras, fonts, registry, effective_order) ==
    With(insertion_index_for(section_key, body, body_paras,
                             rebuild_section_maps(body, body_paras, fonts, registry),
                             effective_order), LAMBDA at :
    LET heading_bold == section_key # "funding statement"
        h_p == create_paragraph(default_blocks[section_key].heading, heading_bold, TRUE)
        c_p == create_paragraph(default_blocks[section_key].content, FALSE, TRUE)
    IN IF section_key = "funding statement" /\ IsSome(at.anchor)
           THEN InsertBlock(body, body_paras, body_paras[Val(at.anchor) + 1],
                            Val(at.anchor) + 1, h_p, c_p)
       ELSE IF ~IsSome(at.idx) \/ Val(at.idx) >= Len(body_paras)
           THEN InsertBlock(body, body_paras, Len(body), Len(body_paras), h_p, c_p)
       ELSE InsertBlock(body, body_paras, Val(at.idx), Val(at.idx), h_p, c_p))

\* the sections still to insert when the texts of the body are not looked at
StillMissing_unchecked(missing_norm, body, body_paras) == missing_norm

\* the blocks whose default heading and content are both among the texts of
\* the body's paragraphs are not missing
StillMissing(missing_norm, body, body_paras) ==
    LET Exists(text) ==
            \E i \in DOMAIN body_paras : PlainTextIs(body[body_paras[i]].paras[1], text)
    IN {section_key \in missing_norm :
            section_key \in DOMAIN default_blocks =>
                ~(Exists(default_blocks[section_key].heading)
                  /\ Exists(default_blocks[section_key].content))}

\* insert_at_index: the heading is bold when it is the acknowledgement heading
insert_at_index(body, body_paras, i, heading, content) ==
    InsertBlock(body, body_paras, i, i,
                create_paragraph(heading, heading = default_blocks["acknowledgement"].heading,
                                 TRUE),
                create_paragraph(content, FALSE, TRUE))

\* the body after the insertions; missing_norm is the set of the names asked
\* for, which the callers pass in lower case
InsertInto(tree, missing_norm, fonts, registry, effective_order) ==
    With(DirectParagraphs(tree), LAMBDA paras :
    With(StillMissing(missing_norm, tree, paras), LAMBDA missing :
    With(logical_first_index(rebuild_section_maps(tree, paras, fonts, registry),
                             "references"), LAMBDA ref_idx :
    With(IF {"acknowledgement", "funding statement"} \subseteq missing /\ IsSome(ref_idx)
         THEN With(insert_at_index(tree, paras, Val(ref_idx),
                                   default_blocks["acknowledgement"].heading,
                                   default_blocks["acknowledgement"].content),
                   LAMBDA first :
                [at |-> insert_at_index(first.body, first.body_paras, Val(ref_idx) + 2,
                                        default_blocks["funding statement"].heading,
                                        default_blocks["funding statement"].content),
                 missing |-> missing \ {"acknowledgement", "funding statement"}])
         ELSE [at |-> [body |-> tree, body_paras |-> paras], missing |-> missing],
         LAMBDA block :
    With(IF "acknowledgement" \in block.missing
         THEN insert_section("acknowledgement", block.at.body, block.at.body_paras, fonts,
                             registry, effective_order)
         ELSE block.at, LAMBDA ack :
    With(IF "funding statement" \in block.missing
         THEN insert_section("funding statement", ack.body, ack.body_paras, fonts,
                             registry, effective_order)
         ELSE ack, LAMBDA funding : funding.body))))))

\* the bytes returned and the registry after the call: the input itself when
\* nothing is asked for or the manuscript cannot be read
insert_missing_sections(template_file, manuscript_file, missing_sections, registry) ==
    With(document_tree(manuscript_file), LAMBDA doc_root :
        IF missing_sections = {} \/ ~IsSome(doc_root)
        THEN [package |-> manuscript_file, registry |-> registry]
        ELSE With(TemplateOrder(template_file, registry), LAMBDA order :
                [package |->
                    write_package(manuscript_file,
                                  InsertInto(Val(doc_root), missing_sections,
                                             load_style_fonts(manuscript_file),
                                             order.registry, order.effective_order)),
                 registry |-> order.registry]))

\* ------------------------------------------------------------------------
\* The documents of the model

\* a run of text at w:sz sz in font, in a paragraph of its own
Styled(text, pStyle, jc, sz, font, b) ==
    P(Paragraph(pStyle, jc, None, <<Run(text, Some(RPr(Some(sz), None, Some(font), b, FALSE, None)))>>))
Plain(text) == Styled(text, "", "", 20, "Times New Roman", FALSE)
Heading(text) == Styled(text, "", "", 20, "Times New Roman", TRUE)

\* a package of the three parts every document has
PackageOf(body) ==
    Package(<<ContentTypesPart, RelsPart, DocumentPart>>,
            (ContentTypesPart :> ContentTypes(<<[PartName |-> "/word/document.xml",
                                                 ContentType |-> "main+xml"]>>))
            @@ (RelsPart :> Relationships(<<Relationship(1, "officeDocument", DocumentPart)>>))
            @@ (DocumentPart :> Document(body)))

\* a template whose sections are title, abstract, introduction, references:
\* its title is set in 14 pt (w:sz 28)
TplOrdered ==
    PackageOf(<<Styled(TxtTitle, "Title", "center", 28, "Times New Roman", TRUE),
                Heading(TxtAbstract), Heading(TxtIntro), Plain(TxtBody),
                Heading(TxtReferences), Plain(TxtBody)>>)

\* a template that opens with an address line and has keywords
TplJournal ==
    PackageOf(<<Styled(TxtAddress, "", "center", 18, "Times New Roman", FALSE),
                Styled(TxtTitle, "Title", "center", 32, "Times New Roman", TRUE),
                Heading(TxtAbstract),
                Styled(TxtKeywords, "", "", 18, "Times New Roman", FALSE),
                Heading(TxtIntro), Plain(TxtBody), Heading(TxtReferences)>>)

\* a manuscript with its introduction (paragraph 3) before its abstract
\* (paragraph 7)
MsIntroFirst ==
    PackageOf(<<Styled(TxtTitle, "Title", "center", 32, "Times New Roman", TRUE),
                Plain(TxtBody), Plain(TxtBody), Heading(TxtIntro), Plain(TxtBody),
                Plain(TxtBody), Plain(TxtBody), Heading(TxtAbstract),
                Heading(TxtFundHeading), Plain(TxtFundBody), Heading(TxtReferences)>>)

\* a manuscript without keywords that names a laboratory in its text
MsLab ==
    PackageOf(<<Styled(TxtTitle, "Title", "center", 32, "Times New Roman", TRUE),
                Heading(TxtAbstract), Heading(TxtIntro), Plain(TxtBody), Plain(TxtLab),
                Heading(TxtAckHeading), Plain(TxtAckBody), Heading(TxtReferences)>>)

\* a package without its main content part
NoDocument ==
    Package(<<ContentTypesPart, RelsPart>>,
            (ContentTypesPart :> ContentTypes(<<>>)) @@ (RelsPart :> Relationships(<<>>)))

\* the template files on disk, by path
TemplateFiles == ("journal.docx" :> TplJournal) @@ ("broken.docx" :> NotAPackage)
\* the uploads: the bytes of a stream
TemplateUploads == {TplOrdered, TplJournal, NotAPackage}
ManuscriptUploads == {MsIntroFirst, MsLab, NoDocument, NotAPackage}
\* the identifiers uuid4 can draw
ItemIds == {"uuid-a", "uuid-b"}
\* the records classify_section_type is called on directly
ClassifyRecords ==
    {Val(extract_paragraph_formatting(body[1].paras[1], index, <<>>, None)) :
        body \in {<<Plain(TxtLab)>>, <<Plain(TxtBody)>>, <<Heading(TxtIntro)>>},
        index \in {5, 25}}

\* ------------------------------------------------------------------------
\* The process
\*
\* disk      the template files, by path
\* registry  JOURNAL_METADATA_TOKEN_SETS, the metadata examples registered
\*           so far in the process
\* result    the last call of analyze_documents: its arguments, the labels
\*           it gave the manuscript paragraphs, the section order of the
\*           template profile, and what it returned
\* log       every direct call of classify_section_type: record and label
\* profile   the template profile last built
\* resolved  the last call of resolve_expected_format: its arguments and
\*           the format it returned
\* output    the last call of a mutator: its arguments and the package it
\*           returned
\* session   st.session_state of the front end, with the files its two
\*           uploaders hold

VARIABLES disk, registry, result, log, profile, resolved, output, session
vars == <<disk, registry, result, log, profile, resolved, output, session>>

NoCall == [kind |-> "none"]

\* the session state a new session starts with; missing_sections is not set
\* before the first analysis and read as the empty list
NewSession ==
    [analysis_done |-> FALSE,
     excel_bytes |-> None,
     mistakes_df |-> None,
     missing_sections |-> <<>>,
     reset_counter |-> 0,
     processed_doc_bytes |-> None,
     processed_doc_name |-> None,
     processing_done |-> FALSE,
     process_description |-> "",
     highlight_debug_info |-> {},
     template_file |-> None,
     manuscript_file |-> None]

Init ==
    /\ disk = TemplateFiles
    /\ registry = {}
    /\ result = NoCall
    /\ log = {}
    /\ profile = None
    /\ resolved = NoCall
    /\ output = NoCall
    /\ session = NewSession

\* the call and what it returned; template is the package analyze_documents
\* reads, after the tagging when it is a file
Outcome(kind, before, template, manuscript, analysis, returned) ==
    [kind |-> kind,
     template_before |-> before,
     template_after |-> template,
     manuscript |-> manuscript,
     parsed |-> IsSome(analysis),
     labels |-> IF IsSome(analysis) THEN Val(analysis).labels ELSE <<>>,
     section_order |-> IF IsSome(analysis) THEN Val(analysis).profile.section_order ELSE <<>>,
     findings |-> returned.findings,
     missing |-> returned.missing,
     xml_previews |-> returned.xml_previews]

\* analyze_documents(path, stream): the template file is tagged first
AnalyzePath(path, manuscript) ==
    \E item_id \in ItemIds :
    \E template \in {ensure_template_tagging(disk[path], registry, item_id).package} :
    \E analysis \in {Analysis(template, manuscript, registry)} :
    \E missing_list \in Orderings(MissingOf(analysis)) :
    \E returned \in {Returned(analysis, template, manuscript, registry, missing_list)} :
        /\ disk' = [disk EXCEPT ![path] = template]
        /\ registry' = returned.registry
        /\ result' = Outcome("path", disk[path], template, manuscript, analysis, returned)
        /\ UNCHANGED <<log, profile, resolved, output, session>>

\* analyze_documents(stream, stream)
AnalyzeStream(template, manuscript) ==
    \E analysis \in {Analysis(template, manuscript, registry)} :
    \E missing_list \in Orderings(MissingOf(analysis)) :
    \E returned \in {Returned(analysis, template, manuscript, registry, missing_list)} :
        /\ registry' = returned.registry
        /\ result' = Outcome("stream", template, template, manuscript, analysis, returned)
        /\ UNCHANGED <<disk, log, profile, resolved, output, session>>

\* classify_section_type(record), called directly
Classify(record) ==
    /\ log' = log \cup {<<record, classify_section_type(record, registry)>>}
    /\ UNCHANGED <<disk, registry, result, profile, resolved, output, session>>

Next ==
    \/ \E path \in DOMAIN TemplateFiles, manuscript \in ManuscriptUploads :
            AnalyzePath(path, manuscript)
    \/ \E template \in TemplateUploads, manuscript \in ManuscriptUploads :
            AnalyzeStream(template, manuscript)

Spec == Init /\ [][Next]_vars

NextClassify ==
    \/ \E template \in TemplateUploads : AnalyzeStream(template, MsLab)
    \/ \E record \in ClassifyRecords : Classify(record)

SpecClassify == Init /\ [][NextClassify]_vars

\* ------------------------------------------------------------------------
\* Properties of analyze_documents and of the classifier

\* the (findings, missing) pairs the call of result can return when it is
\* the only call of a fresh process: the registry is empty, a template file
\* is tagged first, and the missing sections come in any order
Alone(kind, before, manuscript) ==
    LET templates == IF kind = "path"
                     THEN {ensure_template_tagging(before, {}, item_id).package :
                                item_id \in ItemIds}
                     ELSE {before}
    IN UNION {{[findings |-> r.findings, missing |-> r.missing] :
                    r \in {analyze_documents(t, manuscript, {}, missing_list) :
                            missing_list \in Orderings(MissingOf(Analysis(t, manuscript, {})))}} :
                t \in templates}

\* C1: whatever calls went before, a call of analyze_documents returns
\* findings and a missing-section list that the same call returns when it
\* runs alone in a fresh process
C1_NoStateCrossesCalls ==
    result.kind # "none" =>
        [findings |-> result.findings, missing |-> result.missing]
            \in Alone(result.kind, result.template_before, result.manuscript)

\* C2: classify_section_type gives a record one label, at whatever points of
\* an execution it is called
C2_ClassifierIsPure ==
    \A a \in log, b \in log : a[1] = b[1] => a[2] = b[2]

\* C3: after analyze_documents returns, the template package holds what it
\* held before the call, be it a file or a stream (the manuscript is only
\* ever read)
C3_InputsImmutable ==
    result.kind # "none" => result.template_after = result.template_before

\* the package cannot be opened or lacks its main content part
Unreadable(package) ==
    ~package.readable \/ \A i \in DOMAIN package.names : package.names[i] # DocumentPart

\* C5: when the template or the manuscript cannot be opened or lacks its
\* main content part, analyze_documents returns no findings, the missing
\* list ["Error: Could not parse documents"] and no previews
C5_FailsClosed ==
    (/\ result.kind # "none"
     /\ Unreadable(result.template_after) \/ Unreadable(result.manuscript))
    => /\ result.findings = <<>>
       /\ result.missing = <<ParseError>>
       /\ result.xml_previews = None

\* a call on a template that parses and a manuscript without its main
\* content part has returned the sentinel
C5_Witness ==
    /\ result.kind # "none"
    /\ ~Unreadable(result.template_after)
    /\ result.manuscript.readable
    /\ Unreadable(result.manuscript)
    /\ result.missing = <<ParseError>>

\* the findings of a type among the findings returned
FindingsOfType(type) == SelectSeq(result.findings, LAMBDA f : f.type = type)

\* the position (from 0) of the first manuscript paragraph with the label
FirstIndexOf(section) == FirstOccurrence(result.labels, section) - 1

\* C9: with the template order title, abstract, introduction, references
\* and a manuscript whose introduction begins at paragraph 3 and whose
\* abstract begins at paragraph 7, there is exactly one order finding and it
\* is anchored at paragraph 7, the abstract
C9_OrderMismatchAtAbstract ==
    (/\ result.kind # "none"
     /\ result.parsed
     /\ SelectSeq(result.section_order, LAMBDA s : s # "body_text")
            = <<"title", "abstract", "introduction", "references">>
     /\ FirstIndexOf("introduction") = 3
     /\ FirstIndexOf("abstract") = 7)
    => /\ Len(FindingsOfType("section_order_mismatch")) = 1
       /\ FindingsOfType("section_order_mismatch")[1].paragraph_indices = <<7>>

\* every label of the missing list returned has exactly one missing_section
\* finding, and that finding has no paragraph indices
OneFindingPerMissingLabel ==
    \A i \in DOMAIN result.missing :
        LET of_label == SelectSeq(FindingsOfType("missing_section"),
                                  LAMBDA f : f.section = result.missing[i])
        IN Len(of_label) = 1 /\ of_label[1].paragraph_indices = <<>>

\* keywords is in the missing list and has a missing_section finding
KeywordsReported ==
    /\ "keywords" \in Range(result.missing)
    /\ \E i \in DOMAIN result.findings :
            result.findings[i].type = "missing_section"
            /\ result.findings[i].section = "keywords"

\* C10 as stated: for every template and manuscript that parse, when no
\* manuscript paragraph is classified keywords, keywords is reported missing; and every
\* label of the missing list has exactly one missing_section finding
C10_KeywordsAlwaysReported ==
    (result.kind # "none" /\ result.parsed) =>
        /\ "keywords" \notin Range(result.labels) => KeywordsReported
        /\ OneFindingPerMissingLabel

\* the sections the template of the call requires
RequiredOfCall == Range(required_sections([section_order |-> result.section_order]))

\* C10: when both packages parse, keywords is reported missing if the
\* template requires it and no manuscript paragraph is classified keywords;
\* and every label of the missing list has exactly one missing_section
\* finding, without paragraph indices
C10_RequiredKeywordsReported ==
    (result.kind # "none" /\ result.parsed) =>
        /\ ("keywords" \in RequiredOfCall /\ "keywords" \notin Range(result.labels))
                => KeywordsReported
        /\ OneFindingPerMissingLabel

\* a call whose template requires keywords and whose manuscript has none
\* has reported keywords missing
C10_Witness ==
    /\ result.kind # "none"
    /\ result.parsed
    /\ "keywords" \in RequiredOfCall
    /\ "keywords" \notin Range(result.labels)
    /\ KeywordsReported

\* ------------------------------------------------------------------------
\* The resolver

\* a template file after its tagging: it carries the rules part
TplTagged == ensure_template_tagging(TplJournal, {}, "uuid-a").package

\* the templates profiles are built from, and the labels, texts and context
\* labels formats are resolved for
ProfileTemplates == {TplOrdered, TplJournal, TplTagged}
ResolveLabels == {"title", "abstract", "keywords", "body_text", "references"}
ResolveTexts == {TxtTitle, TxtBody}
ResolveContexts == {"", "introduction", "references"}

\* analyze_template_formatting on the paragraphs and the rules of a template
BuildProfile(template) ==
    \E built \in {analyze_template_formatting(ParagraphsOf(template),
                                              load_custom_rules(template), registry)} :
        /\ profile' = Some(built.profile)
        /\ registry' = built.registry
        /\ UNCHANGED <<disk, result, log, resolved, output, session>>

\* profile.resolve_expected_format(section_type, paragraph_text, context)
Resolve(section_type, paragraph_text, context_section) ==
    /\ IsSome(profile)
    /\ resolved' = [kind |-> "resolve",
                    section_type |-> section_type,
                    paragraph_text |-> paragraph_text,
                    context_section |-> context_section,
                    format |-> resolve_expected_format(Val(profile), section_type,
                                                       paragraph_text, context_section)]
    /\ UNCHANGED <<disk, registry, result, log, profile, output, session>>

NextResolve ==
    \/ \E template \in ProfileTemplates : BuildProfile(template)
    \/ \E section_type \in ResolveLabels, paragraph_text \in ResolveTexts,
          context_section \in ResolveContexts :
            Resolve(section_type, paragraph_text, context_section)

SpecResolve == Init /\ [][NextResolve]_vars

\* C4: an expected format that has both a point size and a half-point value
\* has half_points = round(pt * 2)
C4_FontSizePair ==
    resolved.kind # "none" =>
        LET format == resolved.format
        IN (IsSome(format.font_size) /\ IsSome(format.font_size_w_val))
            => Val(format.font_size_w_val) = pt_to_half_points(Val(format.font_size))

\* ------------------------------------------------------------------------
\* The mutators called on uploads and on their own output

MediaPart == "word/media/image1.png"

\* the package with a styles part and an image added
WithExtraParts(package) ==
    Package(package.names \o <<StylesPart, MediaPart>>,
            package.parts
            @@ (StylesPart :> Styles(Some("Times New Roman"), <<>>))
            @@ (MediaPart :> [kind |-> "binary", id |-> 1]))

\* a manuscript without acknowledgement and funding statement, with a table
\* before its introduction
MsTable ==
    WithExtraParts(PackageOf(
        <<Styled(TxtTitle, "Title", "center", 32, "Times New Roman", TRUE),
          Tbl(<<Plain(TxtBody).paras[1]>>),
          Heading(TxtIntro), Plain(TxtBody), Heading(TxtReferences), Plain(TxtCitation)>>))

\* a manuscript without acknowledgement and funding statement and without a
\* table: its second paragraph has a run highlighted in green and a run
\* without properties, its third a run highlighted in yellow
MsMarked ==
    WithExtraParts(PackageOf(
        <<Heading(TxtIntro),
          P(Paragraph("", "", None,
                      <<Run(<<"this", "work">>,
                            Some(RPr(Some(24), None, Some("Arial"), TRUE, FALSE,
                                     Some("green")))),
                        Run(<<"studies", "web", "systems">>, None)>>)),
          P(Paragraph("", "", None,
                      <<Run(TxtBody, Some(RPr(Some(20), None, Some("Times New Roman"),
                                              FALSE, FALSE, Some("yellow"))))>>)),
          Heading(TxtReferences), Plain(TxtCitation)>>))

\* a manuscript without acknowledgement and funding statement whose second
\* paragraph has no run
MsBlank ==
    WithExtraParts(PackageOf(
        <<Heading(TxtIntro), P(Paragraph("", "", None, <<>>)), Plain(TxtBody),
          Heading(TxtReferences), Plain(TxtCitation)>>))

MutatorUploads == {MsTable, MsMarked, MsBlank, NoDocument}
\* the uploads sections are inserted into
InsertUploads == {MsTable, MsMarked, NoDocument}
MutatorTemplates == {TplOrdered, TplJournal, NotAPackage}
MissingLists ==
    {{}, {"funding statement"}, {"acknowledgement", "funding statement"}}

\* a row of the findings table
Mistake(type, paragraph_indices, expected) ==
    [create_finding("", 0, type, Msg("", <<>>), expected, <<>>, Msg("", <<>>))
        EXCEPT !.paragraph_indices = paragraph_indices]

\* a table with a row that lists a paragraph no manuscript has, and a row
\* that lists no paragraph
RowsOutOfRange ==
    <<Mistake("bold_incorrect", <<1, 99>>, Msg("not bold", <<>>)),
      Mistake("missing_section", <<>>, Msg("Section should be present", <<>>))>>
\* a table with a row whose message no size can be read from
RowsUnreadable ==
    <<Mistake("font_size_mismatch", <<2>>, Msg("Not detected", <<>>)),
      Mistake("font_family_mismatch", <<2, 2>>, Msg("font", Some("Arial")))>>
\* a table with rows that can be applied and rows that cannot
RowsMixed ==
    <<Mistake("italic_incorrect", <<1>>, Msg("not italic", <<>>)),
      Mistake("bold_missing", <<0, 99>>, Msg("bold", <<>>)),
      Mistake("font_size_mismatch", <<3>>, Msg("Not detected", <<>>)),
      Mistake("font_family_mismatch", <<4>>, Msg("font", Some("Arial")))>>

\* the findings tables a manuscript is highlighted and corrected with: that
\* of its analysis against TplOrdered, and the tables above
MistakeLists(manuscript_file) ==
    {<<>>,
     analyze_documents(TplOrdered, manuscript_file, {},
                       CHOOSE missing_list \in
                            Orderings(MissingOf(Analysis(TplOrdered, manuscript_file, {}))) :
                                TRUE).findings,
     RowsOutOfRange, RowsUnreadable, RowsMixed}

\* the uploads with the findings tables they are highlighted and corrected
\* with
FlaggedUploads ==
    UNION {{<<manuscript_file, mistakes>> : mistakes \in MistakeLists(manuscript_file)} :
            manuscript_file \in MutatorUploads}

\* a mutator is called at most MaxRuns times in a row on its own output
MaxRuns == 2

Called(kind, template_file, manuscript_file, mistakes, missing_sections, package, runs) ==
    [kind |-> kind,
     template |-> template_file,
     manuscript |-> manuscript_file,
     mistakes |-> mistakes,
     missing |-> missing_sections,
     package |-> package,
     runs |-> runs]

HighlightCall(manuscript_file, mistakes, runs) ==
    /\ UNCHANGED <<disk, registry, result, log, profile, resolved, session>>
    /\ \E done \in {highlight_mistakes(manuscript_file, mistakes)} :
        output' = Called("highlight", NotAPackage, manuscript_file, mistakes, {},
                         done.package, runs)

CorrectCall(manuscript_file, mistakes, runs) ==
    /\ UNCHANGED <<disk, registry, result, log, profile, resolved, session>>
    /\ \E package \in {apply_corrections(manuscript_file, mistakes)} :
        output' = Called("correct", NotAPackage, manuscript_file, mistakes, {},
                         package, runs)

InsertCall(template_file, manuscript_file, missing_sections, runs) ==
    \E done \in {insert_missing_sections(template_file, manuscript_file, missing_sections,
                                         registry)} :
        /\ output' = Called("insert", template_file, manuscript_file, <<>>,
                            missing_sections, Some(done.package), runs)
        /\ registry' = done.registry
        /\ UNCHANGED <<disk, result, log, profile, resolved, session>>

\* highlight_mistakes(template, manuscript, mistakes_df) on an upload
Highlight(manuscript_file, mistakes) == HighlightCall(manuscript_file, mistakes, 1)
\* apply_corrections(template, manuscript, mistakes_df) on an upload
Correct(manuscript_file, mistakes) == CorrectCall(manuscript_file, mistakes, 1)
\* insert_missing_sections(template, manuscript, missing_sections) on an upload
InsertMissing(template_file, manuscript_file, missing_sections) ==
    InsertCall(template_file, manuscript_file, missing_sections, 1)

\* the last call returned a package and may be repeated on it
Repeatable(kind) ==
    /\ output.kind = kind
    /\ IsSome(output.package)
    /\ output.runs < MaxRuns

\* the mutators called again, with the same findings or missing sections, on
\* the package they returned
HighlightAgain ==
    /\ Repeatable("highlight")
    /\ HighlightCall(Val(output.package), output.mistakes, output.runs + 1)
CorrectAgain ==
    /\ Repeatable("correct")
    /\ CorrectCall(Val(output.package), output.mistakes, output.runs + 1)
InsertAgain ==
    /\ Repeatable("insert")
    /\ InsertCall(output.template, Val(output.package), output.missing, output.runs + 1)

\* no call is running: a mutator runs to its end before the next is called
Idle == output.kind \in {"none", "highlight", "correct", "insert"}

NextMutate ==
    \/ /\ Idle
       /\ \E flagged \in FlaggedUploads : Highlight(flagged[1], flagged[2])
    \/ /\ Idle
       /\ \E flagged \in FlaggedUploads : Correct(flagged[1], flagged[2])
    \/ /\ Idle
       /\ \E template_file \in MutatorTemplates, manuscript_file \in InsertUploads,
             missing_sections \in MissingLists :
                InsertMissing(template_file, manuscript_file, missing_sections)
    \/ HighlightAgain
    \/ CorrectAgain
    \/ InsertAgain

SpecMutate == Init /\ [][NextMutate]_vars

\* ------------------------------------------------------------------------
\* Claims on the mutators

\* the last mutator call returned a package read from an archive
Produced == output.kind # "none" /\ IsSome(output.package) /\ output.manuscript.readable

\* C6: the package highlight, correct and insertMissingSections return has
\* the parts of the manuscript package they were given, and every part other
\* than the main content part is identical to the input part
C6_OtherPartsUntouched ==
    Produced =>
        LET given == output.manuscript
            returned == Val(output.package)
        IN /\ returned.readable
           /\ Range(returned.names) = Range(given.names)
           /\ Len(returned.names) = Len(given.names)
           /\ DOMAIN returned.parts = DOMAIN given.parts
           /\ \A name \in DOMAIN given.parts \ {DocumentPart} :
                    returned.parts[name] = given.parts[name]

\* a mutator changed the content tree of a package that has a styles part
\* and an image
C6_Witness ==
    /\ Produced
    /\ output.kind \in {"highlight", "correct", "insert"}
    /\ {StylesPart, MediaPart} \subseteq DOMAIN output.manuscript.parts
    /\ Val(output.package).parts[DocumentPart] # output.manuscript.parts[DocumentPart]

\* the w:highlight elements of a run
HighlightsOf(run) == IF IsSome(run.rPr) THEN Val(run.rPr).highlight ELSE <<>>

\* the indices, counted from 0, of the paragraphs of the manuscript that the
\* findings of the last call refer to
Referenced ==
    {idx \in highlight_map(output.mistakes) :
        0 <= idx /\ idx < Len(AllParagraphs(Val(document_tree(output.manuscript))))}

\* C7: highlight marks every run of every paragraph a finding refers to; a
\* run that was highlighted keeps exactly the highlight elements it had, none
\* removed and none added; and highlight called again with the same findings
\* on its own output returns the same content tree
C7_HighlightIdempotent ==
    (output.kind = "highlight" /\ IsSome(output.package)) =>
        LET given == AllParagraphs(Val(document_tree(output.manuscript)))
            returned == AllParagraphs(Val(document_tree(Val(output.package))))
        IN /\ Len(returned) = Len(given)
           /\ \A i \in DOMAIN given :
                /\ Len(returned[i].runs) = Len(given[i].runs)
                /\ \A r \in DOMAIN given[i].runs :
                    LET before == HighlightsOf(given[i].runs[r])
                        after == HighlightsOf(returned[i].runs[r])
                    IN /\ (i - 1) \in Referenced => after # <<>> /\ after[1] = "yellow"
                       /\ before # <<>> => Len(after) = Len(before)
                       /\ before = <<>> => Len(after) <= 1
           /\ output.runs > 1 => output.package = Some(output.manuscript)

\* highlight was called a second time on its own output, which has a
\* referenced paragraph with runs
C7_Witness ==
    /\ output.kind = "highlight"
    /\ IsSome(output.package)
    /\ output.runs = 2
    /\ \E idx \in Referenced :
            AllParagraphs(Val(document_tree(output.manuscript)))[idx + 1].runs # <<>>

\* the labels the analysis gives the paragraphs of the manuscript of the last
\* call, with the registry the call left
GivenLabels ==
    With(ParagraphsOf(output.manuscript), LAMBDA paragraphs :
        [i \in DOMAIN paragraphs |->
            [index |-> paragraphs[i].index,
             label |-> classify_section_type(paragraphs[i], registry)]])

\* the four paragraphs of the two canned blocks, in order
BlockTexts == <<TxtAckHeading, TxtAckBody, TxtFundHeading, TxtFundBody>>

\* C8: when insertMissingSections is called with acknowledgement and funding
\* statement missing on a manuscript that has neither and whose references
\* section starts at paragraph k, the result is the manuscript's paragraphs
\* with four new highlighted paragraphs at k..k+3 (acknowledgement heading
\* and body, funding heading and body): the references paragraph is at k+4
\* and the original paragraphs keep their content and order
C8_BlockBeforeReferences ==
    (/\ output.kind = "insert"
     /\ {"acknowledgement", "funding statement"} \subseteq output.missing
     /\ Parses(output.manuscript)
     /\ \E i \in DOMAIN GivenLabels : GivenLabels[i].label = "references"
     /\ \A i \in DOMAIN GivenLabels :
            GivenLabels[i].label \notin {"acknowledgement", "funding statement"})
    =>
        LET labels == GivenLabels
            first == CHOOSE i \in DOMAIN labels :
                        /\ labels[i].label = "references"
                        /\ \A j \in 1..(i - 1) : labels[j].label # "references"
            k == labels[first].index
            given == AllParagraphs(Val(document_tree(output.manuscript)))
            returned == AllParagraphs(Val(document_tree(Val(output.package))))
        IN /\ Len(returned) = Len(given) + 4
           /\ \A i \in 1..k : returned[i] = given[i]
           /\ \A j \in 1..4 :
                /\ RunTexts(returned[k + j]) = BlockTexts[j]
                /\ \A r \in DOMAIN returned[k + j].runs :
                        HighlightsOf(returned[k + j].runs[r]) = <<"yellow">>
           /\ \A i \in (k + 1)..Len(given) : returned[i + 4] = given[i]

\* the two blocks were inserted in a manuscript that has a references
\* section and neither of them
C8_Witness ==
    /\ output.kind = "insert"
    /\ {"acknowledgement", "funding statement"} \subseteq output.missing
    /\ output.manuscript = MsMarked
    /\ Val(output.package) # output.manuscript

\* ------------------------------------------------------------------------
\* The comparator, one paragraph at a time

\* the manuscript paragraphs compared, each with the section the loop met
\* last: every text in both sizes, bold or not, italic or not; some in
\* another font or near the top of the document; body text under two
\* sections, there in 9 pt as well
CompareTexts ==
    {TxtTitle, TxtAbstract, TxtKeywords, TxtIntro, TxtConclusion, TxtReferences,
     TxtAuthors, TxtEmail, TxtBody}
CompareSizes == {20, 24}

CompareRecord(text, sz, font, b, i, index) ==
    Val(extract_paragraph_formatting(
            Paragraph("", "", None, <<Run(text, Some(RPr(Some(sz), None, Some(font), b, i, None)))>>),
            index, <<>>, None))

\* the index at which the classifier still looks for front matter
NearTop(text) == IF text \in {TxtTitle, TxtAuthors, TxtEmail} THEN 1 ELSE 12

CompareInputs ==
    {<<CompareRecord(text, sz, "Times New Roman", b, i, NearTop(text)), "">> :
        text \in CompareTexts, sz \in CompareSizes, b \in BOOLEAN, i \in BOOLEAN}
    \cup {<<CompareRecord(text, 20, "Arial", FALSE, FALSE, 12), "">> :
            text \in {TxtBody, TxtIntro}}
    \cup {<<CompareRecord(text, 20, "Times New Roman", FALSE, FALSE, 12), "">> :
            text \in {TxtTitle, TxtAuthors, TxtEmail}}
    \cup {<<CompareRecord(TxtBody, sz, "Times New Roman", b, FALSE, 12), context>> :
            sz \in CompareSizes, b \in BOOLEAN, context \in {"introduction", "references"}}
    \cup {<<CompareRecord(TxtBody, 18, "Times New Roman", FALSE, FALSE, 12), context>> :
            context \in {"introduction", "references"}}

\* a template without a rules part whose author line is bold
TplAuthors ==
    PackageOf(<<Styled(TxtTitle, "Title", "center", 28, "Times New Roman", TRUE),
                Styled(TxtAuthors, "", "center", 22, "Times New Roman", TRUE),
                Heading(TxtAbstract),
                Styled(TxtKeywords, "", "", 18, "Times New Roman", FALSE),
                Heading(TxtIntro), Plain(TxtBody), Heading(TxtReferences)>>)
CompareTemplates == {TplOrdered, TplTagged, TplAuthors}

\* one turn of the loop of compare_against_template: the paragraph is
\* classified, its expected format resolved in the context of the section
\* it follows, and its formatting checked
Compared(paragraph, section_type, context_section, expected, findings) ==
    [kind |-> "compare",
     paragraph |-> paragraph,
     section_type |-> section_type,
     context_section |-> context_section,
     expected |-> expected,
     findings |-> findings]

CompareParagraph(paragraph, last_context_section) ==
    /\ IsSome(profile)
    /\ \E section_type \in {classify_section_type(paragraph, registry)} :
       \E context_section \in {IF section_type = "body_text" THEN last_context_section
                               ELSE ""} :
       \E format \in {resolve_expected_format(Val(profile), section_type, paragraph.text,
                                              context_section)} :
       \E expected \in {IF format = EmptyFormat THEN get_default_formatting(section_type)
                        ELSE format} :
            resolved' = Compared(paragraph, section_type, context_section, expected,
                            check_formatting_mismatches(
                                paragraph, section_type, expected,
                                IF section_type # "body_text" THEN section_type
                                ELSE IF context_section # ""
                                    THEN "body_text::" \o context_section
                                ELSE "body_text::general"))
    /\ UNCHANGED <<disk, registry, result, log, profile, output, session>>

NextCompare ==
    \/ \E template \in CompareTemplates : BuildProfile(template)
    \/ \E input \in CompareInputs : CompareParagraph(input[1], input[2])

SpecCompare == Init /\ [][NextCompare]_vars

\* the findings of the last comparison that have one of the types
FindingsIn(types) ==
    SelectSeq(resolved.findings, LAMBDA finding : finding.type \in types)
HasFinding(type) == FindingsIn({type}) # <<>>
BoldFindings == FindingsIn({"bold_missing", "bold_incorrect"})
ItalicFindings == FindingsIn({"italic_missing", "italic_incorrect"})

\* C11: an introduction paragraph in 12 pt bold, its family and italic as
\* expected, compared with the expected format {10 pt, Times New Roman, not
\* bold}, gets exactly two findings: a font size mismatch that found 12 pt
\* and expected 10 pt, and bold_incorrect
C11_IntroductionTwoFindings ==
    (/\ resolved.kind = "compare"
     /\ resolved.section_type = "introduction"
     /\ resolved.expected.font_size = Some(1000)
     /\ resolved.expected.font_name = Some("Times New Roman")
     /\ resolved.expected.bold = Some(FALSE)
     /\ resolved.paragraph.font_size = Some(1200)
     /\ resolved.paragraph.font_name = Some("Times New Roman")
     /\ resolved.paragraph.bold
     /\ ~resolved.paragraph.italic)
    => /\ Len(resolved.findings) = 2
       /\ Len(FindingsIn({"bold_incorrect"})) = 1
       /\ \E k \in DOMAIN resolved.findings :
            /\ resolved.findings[k].type = "font_size_mismatch"
            /\ resolved.findings[k].found.pt = Some(1200)
            /\ resolved.findings[k].expected.pt = Some(1000)
       /\ \A k \in DOMAIN resolved.findings :
            resolved.findings[k].paragraph_indices = <<resolved.paragraph.index>>

\* such a paragraph has been compared
C11_Witness ==
    /\ resolved.kind = "compare"
    /\ resolved.section_type = "introduction"
    /\ resolved.expected.font_size = Some(1000)
    /\ resolved.expected.font_name = Some("Times New Roman")
    /\ resolved.expected.bold = Some(FALSE)
    /\ resolved.paragraph.font_size = Some(1200)
    /\ resolved.paragraph.bold
    /\ ~resolved.paragraph.italic
    /\ HasFinding("font_size_mismatch")
    /\ HasFinding("bold_incorrect")

\* the labels that must be italic, and the header-type labels
MustBeItalic == {"keywords", "corresponding_author"}
HeaderTypeLabels ==
    {"abstract", "introduction", "literature review", "research methodology",
     "results and discussions", "conclusion", "acknowledgement", "acknowledgment",
     "funding statement", "author contributions", "conflict of interests",
     "ethics statements", "biographies of authors", "references", "main_heading"}

\* C12: a keywords or corresponding-author paragraph that is not italic
\* gets italic_missing with expected "italic"; a header-type, title or
\* references paragraph that is italic gets italic_incorrect; a paragraph
\* of any other label gets no italic finding, whatever italic value is
\* expected of it
C12_ItalicRule ==
    resolved.kind = "compare" =>
        LET label == resolved.section_type
            italic == resolved.paragraph.italic
        IN /\ (label \in MustBeItalic /\ ~italic)
                => /\ Len(ItalicFindings) = 1
                   /\ ItalicFindings[1].type = "italic_missing"
                   /\ ItalicFindings[1].expected = Msg("italic", <<>>)
           /\ (label \in HeaderTypeLabels \cup {"title", "references"} /\ italic)
                => /\ Len(ItalicFindings) = 1
                   /\ ItalicFindings[1].type = "italic_incorrect"
           /\ label \notin MustBeItalic \cup HeaderTypeLabels \cup {"title", "references"}
                => ItalicFindings = <<>>

\* a keywords paragraph that is not italic got italic_missing although the
\* format expected of it is not italic
C12_Witness ==
    /\ resolved.kind = "compare"
    /\ resolved.section_type = "keywords"
    /\ ~resolved.paragraph.italic
    /\ resolved.expected.italic = Some(FALSE)
    /\ HasFinding("italic_missing")

\* C13 as stated: for a paragraph that is not body text, compared under a
\* template without an overlay, bold is expected of a title only, so that
\* bold_missing is reported for title paragraphs only, and a difference
\* between the expected and the actual bold gives exactly one bold finding
C13_BoldMissingOnlyForTitle ==
    (/\ resolved.kind = "compare"
     /\ resolved.section_type # "body_text"
     /\ DOMAIN Val(profile).custom_rules = {})
    => /\ Len(BoldFindings) <= 1
       /\ HasFinding("bold_missing") => resolved.section_type = "title"
       /\ (resolved.section_type \in HeaderTypeLabels /\ resolved.paragraph.bold)
            => HasFinding("bold_incorrect")

\* an author line that is not bold has been compared under the template
\* without an overlay whose author line is bold
C13_Witness ==
    /\ resolved.kind = "compare"
    /\ resolved.section_type = "authors"
    /\ DOMAIN Val(profile).custom_rules = {}
    /\ ~resolved.paragraph.bold
    /\ resolved.expected.bold = Some(TRUE)

\* the sizes differ as the body-text rule counts it
SizeDiffers(paragraph, expected) ==
    IF IsSome(expected.font_size_w_val) /\ IsSome(paragraph.font_size_w_val)
        THEN expected.font_size_w_val # paragraph.font_size_w_val
    ELSE /\ IsSome(expected.font_size) /\ IsSome(paragraph.font_size)
         /\ \/ Val(expected.font_size) - Val(paragraph.font_size) >= 50
            \/ Val(paragraph.font_size) - Val(expected.font_size) >= 50

TplContext ==
    PackageOf(<<Styled(TxtTitle, "Title", "center", 28, "Times New Roman", TRUE),
                Heading(TxtAbstract),
                Styled(TxtBody, "", "", 18, "Times New Roman", FALSE),
                Heading(TxtIntro), Plain(TxtBody), Plain(TxtBody),
                Heading(TxtReferences)>>)
\* the same template after its tagging: it carries the rules part
TplContextTagged == ensure_template_tagging(TplContext, {}, "uuid-a").package
\* a template whose body text names no font, and that has a line of digits
\* set in Arial
TplExemplar ==
    PackageOf(<<Styled(TxtTitle, "Title", "center", 28, "Times New Roman", TRUE),
                Heading(TxtAbstract), Heading(TxtIntro),
                P(Paragraph("", "", None,
                            <<Run(TxtBody, Some(RPr(Some(20), None, None, FALSE, FALSE, None)))>>)),
                Styled(TxtIssue, "", "", 18, "Arial", FALSE),
                Heading(TxtReferences)>>)

LayerTemplates == {TplContext, TplContextTagged, TplExemplar}
LayerLabels == {"title", "abstract", "keywords", "body_text"}
LayerTexts == {TxtTitle, TxtBody, TxtIssue}
LayerContexts == {"", "abstract", "introduction", "references"}

\* what resolve_expected_format looks up for a label, a text and a context:
\* the overlay rule of the label's role, the aggregated rule of the label,
\* the rule of the context, the fixed override, the best example and the
\* defaults
Layers(template_profile, section_type, paragraph_text, context_section) ==
    LET rule_role == SECTION_TO_RULE_ROLE(section_type)
        match == find_matching_example(template_profile, section_type, paragraph_text,
                                       context_section)
    IN [overlay |-> IF rule_role # "" /\ rule_role \in DOMAIN template_profile.custom_rules
                    THEN template_profile.custom_rules[rule_role] ELSE EmptyFormat,
        aggregated |-> IF section_type \in DOMAIN template_profile.rules
                       THEN template_profile.rules[section_type] ELSE EmptyFormat,
        context |-> IF /\ context_section # ""
                       /\ section_type = "body_text"
                       /\ context_section \in DOMAIN template_profile.context_rules
                    THEN template_profile.context_rules[context_section] ELSE EmptyFormat,
        override |-> HARDCODED_SECTION_OVERRIDES(section_type),
        example |-> IF match.example = <<>> THEN EmptyFormat
                    ELSE ParagraphFormat(match.example[1]),
        defaults |-> get_default_formatting(section_type)]

\* profile.resolve_expected_format(section_type, paragraph_text, context),
\* with what it looked up
ResolveLayers(section_type, paragraph_text, context_section) ==
    /\ IsSome(profile)
    /\ \E layers \in {Layers(Val(profile), section_type, paragraph_text, context_section)} :
       \E format \in {resolve_expected_format(Val(profile), section_type, paragraph_text,
                                              context_section)} :
            resolved' = [kind |-> "layers",
                         section_type |-> section_type,
                         paragraph_text |-> paragraph_text,
                         context_section |-> context_section,
                         layers |-> layers,
                         format |-> format]
    /\ UNCHANGED <<disk, registry, result, log, profile, output, session>>

NextLayers ==
    \/ \E template \in LayerTemplates : BuildProfile(template)
    \/ \E section_type \in LayerLabels, paragraph_text \in LayerTexts,
          context_section \in LayerContexts :
            ResolveLayers(section_type, paragraph_text, context_section)

SpecLayers == Init /\ [][NextLayers]_vars

\* the call is one in which no rule fixed in the code for body text under a
\* section applies
NoFixedContextRule ==
    ~(resolved.section_type = "body_text"
      /\ resolved.context_section \in {"references", "results and discussions"})

\* C15: a field the fixed override defines has the override's value; any
\* other field keeps the value of the first of the overlay rule, the
\* aggregated rule and the context rule that defines it
C15_EarlierLayerKept ==
    (resolved.kind = "layers" /\ NoFixedContextRule) =>
        LET l == resolved.layers
        IN \A k \in {"font_size", "font_name", "bold", "italic"} :
            resolved.format[k] =
                IF IsSome(l.override[k]) THEN l.override[k]
                ELSE IF IsSome(l.overlay[k]) THEN l.overlay[k]
                ELSE IF IsSome(l.aggregated[k]) THEN l.aggregated[k]
                ELSE IF IsSome(l.context[k]) THEN l.context[k]
                ELSE resolved.format[k]

\* a format was resolved for body text in a context whose rule gives a font
\* size other than the aggregated rule's
C15_Witness ==
    /\ resolved.kind = "layers"
    /\ NoFixedContextRule
    /\ IsSome(resolved.layers.aggregated.font_size)
    /\ IsSome(resolved.layers.context.font_size)
    /\ resolved.layers.context.font_size # resolved.layers.aggregated.font_size

\* the first four layers leave the field unset
UnsetBeforeExamples(k) ==
    /\ ~IsSome(resolved.layers.overlay[k])
    /\ ~IsSome(resolved.layers.aggregated[k])
    /\ ~IsSome(resolved.layers.context[k])
    /\ ~IsSome(resolved.layers.override[k])

\* the first four layers define some field, so the rule of body text is not
\* taken in their place
SomeLayerApplies ==
    \E k \in {"font_size", "font_name", "bold", "italic"} : ~UnsetBeforeExamples(k)

\* C16: a field the first four layers leave unset has the value of the
\* best-matching example when that example has one, and the default only
\* when it has none
C16_ExampleBeforeDefaults ==
    (resolved.kind = "layers" /\ NoFixedContextRule /\ SomeLayerApplies) =>
        \A k \in {"font_size", "font_name", "bold", "italic"} :
            UnsetBeforeExamples(k) =>
                resolved.format[k] =
                    IF IsSome(resolved.layers.example[k]) THEN resolved.layers.example[k]
                    ELSE resolved.layers.defaults[k]

\* a format was resolved for a text whose best example has a font the first
\* four layers do not give
C16_Witness ==
    /\ resolved.kind = "layers"
    /\ NoFixedContextRule
    /\ SomeLayerApplies
    /\ UnsetBeforeExamples("font_name")
    /\ IsSome(resolved.layers.example.font_name)
    /\ resolved.layers.example.font_name # resolved.layers.defaults.font_name

\* ------------------------------------------------------------------------
\* The label of one paragraph

LabelTexts == {TxtTitle, TxtAddress, TxtVolume, TxtBody, TxtIntro, TxtFigure, TxtWebEng}
\* w:sz of the run of a paragraph: 10 pt and 24 pt
LabelSizes == {20, 48}
LabelIndexes == {1, 3, 25}
\* role tags the table maps, and role tags it does not
MappedTags == {"jiwe:title", "jiwe:abstract", "jiwe:reference"}
HeadingTags == {"jiwe:heading level=2", "jiwe:heading-level-1"}
LabelTags == MappedTags \cup HeadingTags \cup {"jiwe:body-text"}

\* the record extract_paragraph_formatting makes of a paragraph of one run,
\* wrapped in a content control tagged role_tag when role_tag is not ""
LabelRecord(text, sz, pStyle, jc, index, role_tag) ==
    Val(extract_paragraph_formatting(
            [Paragraph(pStyle, jc, None,
                       <<Run(text, Some(RPr(Some(sz), None, Some("Times New Roman"),
                                            FALSE, FALSE, None)))>>)
                EXCEPT !.sdt = IF role_tag = "" THEN None
                               ELSE Some([tag |-> role_tag, alias |-> ""])],
            index, <<>>, None))

LabelRecords ==
    {LabelRecord(text, sz, pStyle, "center", index, "") :
        text \in LabelTexts, sz \in LabelSizes, pStyle \in {"", "Title"},
        index \in LabelIndexes}
    \cup {LabelRecord(text, sz, "Title", "", index, role_tag) :
            text \in {TxtTitle, TxtAddress, TxtIntro}, sz \in LabelSizes,
            index \in {1, 25}, role_tag \in LabelTags}

\* classify_section_type(record), with the record it was given
Label(record) ==
    /\ resolved' = [kind |-> "label",
                    record |-> record,
                    label |-> classify_section_type(record, registry)]
    /\ UNCHANGED <<disk, registry, result, log, profile, output, session>>

NextLabel == \E record \in LabelRecords : Label(record)

SpecLabel == Init /\ [][NextLabel]_vars

\* the record has no role tag and its text is none of the special texts, so
\* the first two rules do not apply
TextRulesApply(record) ==
    /\ record.role_tag = ""
    /\ SPECIAL_TEXT_TO_SECTION(normalize_special_key(record.text)) = ""

\* the front-matter rule of journal metadata: the paragraph is near the top,
\* names an institution or a place, and has a digit, a comma or a semicolon
FrontMatterMetadata(record) ==
    /\ record.index < 20
    /\ ~ContainsPhrase(record.text, <<"author">>)
    /\ \E term \in {"department", "faculty", "university", "institute", "school",
                    "jalan", "road", "street", "malaysia", "singapore", "taiwan",
                    "china", "india", "thailand", "tel", "fax", "postal", "address"} :
            ContainsPhrase(record.text, <<term>>)
    /\ \E i \in DOMAIN record.text :
            record.text[i] \in DigitWords \cup CommaWords \cup SemicolonWords

\* the font size rule: 20 pt or more
LargeFont(record) == IsSome(record.font_size) /\ Val(record.font_size) >= 2000

\* C17: a paragraph the front-matter rule of journal metadata and the font
\* size rule both match is labelled by the earlier of the two, the
\* front-matter rule: journal_metadata
C17_FrontMatterBeforeFontSize ==
    (/\ resolved.kind = "label"
     /\ TextRulesApply(resolved.record)
     /\ FrontMatterMetadata(resolved.record)
     /\ LargeFont(resolved.record))
        => resolved.label = "journal_metadata"

\* an address line in 24 pt near the top was classified
C17_Witness ==
    /\ resolved.kind = "label"
    /\ TextRulesApply(resolved.record)
    /\ FrontMatterMetadata(resolved.record)
    /\ LargeFont(resolved.record)
    /\ resolved.record.index > 1

\* C18: a paragraph with a role tag of the table has the label the table
\* gives the tag, and a paragraph with a heading tag the table does not have
\* is a main_heading, whatever its text, font size, position and style
C18_RoleTagDecides ==
    resolved.kind = "label" =>
        /\ ROLE_TAG_TO_SECTION(resolved.record.role_tag) # ""
            => resolved.label = ROLE_TAG_TO_SECTION(resolved.record.role_tag)
        /\ resolved.record.role_tag \in HeadingTags => resolved.label = "main_heading"

\* a tagged paragraph was classified whose text, size and style alone give
\* another label than its tag
C18_Witness ==
    /\ resolved.kind = "label"
    /\ resolved.record.role_tag \in MappedTags \cup HeadingTags
    /\ classify_section_type([resolved.record EXCEPT !.role_tag = ""], registry)
            # resolved.label

\* ------------------------------------------------------------------------
\* Findings that cannot be carried out

\* the instruction a row of the findings table is read as: the attribute of
\* the run properties it sets and the value, or None when the type sets no
\* attribute or no value can be read from the expected message
Instruction(row) ==
    IF row.type = "font_family_mismatch"
        THEN (IF IsSome(parse_expected_font_name(row.expected))
              THEN Some([attribute |-> "rFonts",
                         value |-> Some(normalize_font_name(
                                        Val(parse_expected_font_name(row.expected))))])
              ELSE None)
    ELSE IF row.type = "font_size_mismatch"
        THEN (IF IsSome(parse_expected_font_size(row.expected))
              THEN Some([attribute |-> "sz",
                         value |-> Some(pt_to_half_points(
                                        Val(parse_expected_font_size(row.expected))))])
              ELSE None)
    ELSE IF row.type \in {"bold_missing", "bold_incorrect", "bold_mismatch"}
        THEN Some([attribute |-> "b",
                   value |-> interpret_expected_flag(row.expected, "bold", TRUE)])
    ELSE IF row.type \in {"italic_missing", "italic_incorrect", "italic_mismatch"}
        THEN Some([attribute |-> "i",
                   value |-> interpret_expected_flag(row.expected, "italic", TRUE)])
    ELSE None

\* an optional w:rPr holds the value of the instruction for its attribute
Shows(rPr, set) ==
    /\ IsSome(rPr)
    /\ CASE set.attribute = "rFonts" -> Val(rPr).rFonts = set.value
         [] set.attribute = "sz" -> Val(rPr).sz = set.value
         [] set.attribute = "b" -> Val(rPr).b = set.value
         [] set.attribute = "i" -> Val(rPr).i = set.value

\* the rows of the last call that list the paragraph and can be carried out
\* on it: the paragraph has a run and the row reads as an instruction
Appliable(given, idx) ==
    {m \in DOMAIN output.mistakes :
        /\ idx \in Range(output.mistakes[m].paragraph_indices)
        /\ given[idx + 1].runs # <<>>
        /\ IsSome(Instruction(output.mistakes[m]))}

\* C19: a finding of highlight or correct whose paragraph index is outside
\* the manuscript, whose paragraph has no run or whose expected value reads
\* as no instruction is skipped without aborting the call: a package is
\* returned, highlight marks every run of every other listed paragraph, and
\* correct leaves on every run and on the paragraph mark of every listed
\* paragraph the value of the last row of each attribute that can be carried
\* out on it
C19_FailuresIsolated ==
    (/\ output.kind \in {"highlight", "correct"}
     /\ IsSome(document_tree(output.manuscript))
     /\ highlight_map(output.mistakes) # {}) =>
        /\ IsSome(output.package)
        /\ IsSome(document_tree(Val(output.package)))
        /\ LET given == AllParagraphs(Val(document_tree(output.manuscript)))
               returned == AllParagraphs(Val(document_tree(Val(output.package))))
           IN /\ Len(returned) = Len(given)
              /\ \A idx \in Referenced :
                    /\ Len(returned[idx + 1].runs) = Len(given[idx + 1].runs)
                    /\ output.kind = "highlight" =>
                        \A r \in DOMAIN returned[idx + 1].runs :
                            /\ HighlightsOf(returned[idx + 1].runs[r]) # <<>>
                            /\ HighlightsOf(returned[idx + 1].runs[r])[1] = "yellow"
                    /\ output.kind = "correct" =>
                        \A m \in Appliable(given, idx) :
                            LET set == Val(Instruction(output.mistakes[m]))
                                later == {n \in Appliable(given, idx) :
                                            /\ n > m
                                            /\ Val(Instruction(output.mistakes[n])).attribute
                                                = set.attribute}
                            IN later = {} =>
                                /\ Shows(returned[idx + 1].rPr, set)
                                /\ \A r \in DOMAIN returned[idx + 1].runs :
                                        Shows(returned[idx + 1].runs[r].rPr, set)

\* correct was called with a table that has a row listing a paragraph outside
\* the manuscript, a row listing a paragraph without runs, a row whose size
\* cannot be read, and a row that changed another paragraph
C19_Witness ==
    /\ output.kind = "correct"
    /\ IsSome(output.package)
    /\ IsSome(document_tree(output.manuscript))
    /\ LET given == AllParagraphs(Val(document_tree(output.manuscript)))
           returned == AllParagraphs(Val(document_tree(Val(output.package))))
       IN /\ \E idx \in highlight_map(output.mistakes) : idx \notin Referenced
          /\ \E idx \in Referenced : given[idx + 1].runs = <<>>
          /\ \E m \in DOMAIN output.mistakes :
                /\ output.mistakes[m].paragraph_indices # <<>>
                /\ output.mistakes[m].type = "font_size_mismatch"
                /\ ~IsSome(Instruction(output.mistakes[m]))
          /\ \E idx \in Referenced :
                /\ Appliable(given, idx) # {}
                /\ returned[idx + 1] # given[idx + 1]

\* ------------------------------------------------------------------------
\* The missing list

AlwaysRequired == {"acknowledgement", "funding statement"}

\* C20: when both packages parse, the missing list holds, each once, the
\* sections the template requires that no manuscript paragraph is classified
\* as, and acknowledgement and funding statement when no manuscript
\* paragraph is classified as them, whether or not the template has them; a
\* label a manuscript paragraph has is not in the list
C20_MissingExact ==
    (result.kind # "none" /\ result.parsed) =>
        LET present == Range(result.labels)
        IN /\ Range(result.missing)
                = (RequiredOfCall \ present) \cup (AlwaysRequired \ present)
           /\ Range(result.missing) \cap present = {}
           /\ \A i, j \in DOMAIN result.missing :
                    result.missing[i] = result.missing[j] => i = j

\* a call whose template has no acknowledgement and whose manuscript has
\* none either, has a section the template requires and lacks another: the
\* acknowledgement and the lacking section are listed, the other is not
C20_Witness ==
    /\ result.kind # "none"
    /\ result.parsed
    /\ "acknowledgement" \notin Range(result.section_order)
    /\ "acknowledgement" \notin Range(result.labels)
    /\ "acknowledgement" \in Range(result.missing)
    /\ \E label \in RequiredOfCall \ AlwaysRequired :
            label \notin Range(result.labels) /\ label \in Range(result.missing)
    /\ \E label \in RequiredOfCall :
            label \in Range(result.labels) /\ label \notin Range(result.missing)

\* ------------------------------------------------------------------------
\* Insertion of the missing sections into manuscripts that have some of them

\* a manuscript whose acknowledgement comes after its references
MsAckLast ==
    PackageOf(<<Heading(TxtIntro), Plain(TxtBody), Heading(TxtReferences), Plain(TxtCitation),
                Heading(TxtAckHeading), Plain(TxtAckBody)>>)

\* a manuscript with a conclusion between its acknowledgement and its
\* references
MsAckFirst ==
    PackageOf(<<Heading(TxtIntro), Plain(TxtBody), Heading(TxtAckHeading), Plain(TxtAckBody),
                Heading(TxtConclusion), Plain(TxtBody), Heading(TxtReferences),
                Plain(TxtCitation)>>)

\* a manuscript with a funding statement and no acknowledgement
MsFund ==
    PackageOf(<<Heading(TxtIntro), Plain(TxtBody), Heading(TxtFundHeading), Plain(TxtFundBody),
                Heading(TxtReferences), Plain(TxtCitation)>>)

\* a manuscript without references
MsNoRefs ==
    PackageOf(<<Heading(TxtIntro), Plain(TxtBody), Heading(TxtConclusion), Plain(TxtBody)>>)

SectionUploads ==
    {MsTable, MsMarked, MsLab, MsAckLast, MsAckFirst, MsFund, MsNoRefs, NoDocument}
\* the template whose order ends with references, and a template that cannot
\* be read, which leaves the canonical order
SectionTemplates == {TplOrdered, NotAPackage}
\* keywords has no canned block
SectionLists ==
    {{"acknowledgement"}, {"funding statement"}, {"acknowledgement", "funding statement"},
     {"funding statement", "keywords"}}

\* no call is left to repeat: the reruns of a call are made before the next
\* upload is worked on
Finished == output.kind = "none" \/ ~Repeatable("insert")

NextInsert ==
    \/ /\ Finished
       /\ \E template_file \in SectionTemplates, manuscript_file \in SectionUploads,
             missing_sections \in SectionLists :
                InsertMissing(template_file, manuscript_file, missing_sections)
    \/ InsertAgain

SpecInsert == Init /\ [][NextInsert]_vars

\* ------------------------------------------------------------------------
\* Where a single section is inserted

\* the children of w:body of a package that has a content tree
BodyOf(package) == Val(document_tree(package))

\* the position in the body of the heading of the block of section_key,
\* when the returned body is the given body with the heading and the content
\* of the block, adjacent and in that order, put in at one place; 0 when it
\* is not
BlockPositions(given, returned, section_key) ==
    {p \in 1..(Len(given) + 1) :
        /\ Len(returned) = Len(given) + 2
        /\ SubSeq(returned, 1, p - 1) = SubSeq(given, 1, p - 1)
        /\ SubSeq(returned, p + 2, Len(returned)) = SubSeq(given, p, Len(given))
        /\ returned[p].kind = "p"
        /\ returned[p + 1].kind = "p"
        /\ PlainTextIs(returned[p].paras[1], default_blocks[section_key].heading)
        /\ PlainTextIs(returned[p + 1].paras[1], default_blocks[section_key].content)}

\* the position the block of section_key is expected at in a body: that of
\* the first paragraph of the next section of the order that the body has,
\* else the position after the last paragraph of the nearest earlier section
\* it has; 0 when the body has neither
ExpectedPosition(given, fonts, effective_order, section_key) ==
    With(DirectParagraphs(given), LAMBDA body_paras :
    With(rebuild_section_maps(given, body_paras, fonts, registry), LAMBDA maps :
    With(CHOOSE i \in DOMAIN effective_order : effective_order[i] = section_key,
         LAMBDA s_idx :
    With(FirstSome([k \in 1..(Len(effective_order) - s_idx) |->
                        logical_first_index(maps, effective_order[s_idx + k])]),
         LAMBDA next :
    With(FirstSome(Reverse([k \in 1..(s_idx - 1) |->
                        logical_last_index(maps, effective_order[k])])),
         LAMBDA last :
        IF IsSome(next) THEN body_paras[Val(next) + 1]
        ELSE IF IsSome(last) THEN body_paras[Val(last) + 1] + 1
        ELSE 0)))))

\* the position of the first paragraph of the references section, 0 when
\* the body has none
ReferencesPosition(given, fonts) ==
    With(DirectParagraphs(given), LAMBDA body_paras :
    With(logical_first_index(rebuild_section_maps(given, body_paras, fonts, registry),
                             "references"), LAMBDA references_idx :
        IF IsSome(references_idx) THEN body_paras[Val(references_idx) + 1] ELSE 0))

\* the last call was the first on an upload, asked for one section with a
\* canned block and returned a body two children longer
InsertedOne(section_key) ==
    /\ output.kind = "insert"
    /\ output.runs = 1
    /\ output.missing = {section_key}
    /\ IsSome(document_tree(output.manuscript))
    /\ Len(BodyOf(Val(output.package))) = Len(BodyOf(output.manuscript)) + 2

\* C21: when insertMissingSections inserts the block of acknowledgement or
\* of funding statement alone, its heading and body are adjacent and in that
\* order, just before the first paragraph of the next section of the
\* template order that the manuscript has or, when it has none, just after
\* the last paragraph of the nearest earlier section; and an inserted funding
\* statement is not after the start of the references section
C21_BeforeNextOrAfterPrevious ==
    \A section_key \in {"acknowledgement", "funding statement"} :
        InsertedOne(section_key) =>
            LET given == BodyOf(output.manuscript)
                returned == BodyOf(Val(output.package))
                fonts == load_style_fonts(output.manuscript)
                order == TemplateOrder(output.template, registry).effective_order
                expected == ExpectedPosition(given, fonts, order, section_key)
                references == ReferencesPosition(given, fonts)
                found == BlockPositions(given, returned, section_key)
            IN /\ found # {}
               /\ expected # 0 => expected \in found
               /\ (section_key = "funding statement" /\ references # 0) =>
                        \E p \in found : p <= references

\* a funding statement was inserted alone into a manuscript that has an
\* acknowledgement and references
C21_Witness ==
    /\ InsertedOne("funding statement")
    /\ ReferencesPosition(BodyOf(output.manuscript),
                          load_style_fonts(output.manuscript)) # 0
    /\ \E p \in DOMAIN BodyOf(output.manuscript) :
            /\ BodyOf(output.manuscript)[p].kind = "p"
            /\ PlainTextIs(BodyOf(output.manuscript)[p].paras[1], TxtAckHeading)
    /\ BlockPositions(BodyOf(output.manuscript), BodyOf(Val(output.package)),
                      "funding statement") # {}

\* ------------------------------------------------------------------------
\* The paragraphs insertion creates

\* the children of the returned body that the given body does not have
Created ==
    LET given == BodyOf(output.manuscript)
        returned == BodyOf(Val(output.package))
    IN {returned[p] : p \in DOMAIN returned} \ {given[p] : p \in DOMAIN given}

\* the last call was the first on an upload that has a content tree
InsertedInto ==
    /\ output.kind = "insert"
    /\ output.runs = 1
    /\ IsSome(document_tree(output.manuscript))

\* C22: every paragraph insert_missing_sections creates, headings and bodies
\* alike, is one run in Times New Roman at 10 pt (w:sz 20), not bold and
\* highlighted yellow
C22_CreatedParagraphFormat ==
    InsertedInto =>
        \A element \in Created :
            /\ element.kind = "p"
            /\ Len(element.paras[1].runs) = 1
            /\ LET rPr == element.paras[1].runs[1].rPr
               IN /\ IsSome(rPr)
                  /\ Val(rPr).rFonts = Some("Times New Roman")
                  /\ Val(rPr).sz = Some(20)
                  /\ Val(rPr).b = FALSE
                  /\ Val(rPr).highlight = Some("yellow")

\* an acknowledgement and a funding statement were created
C22_Witness ==
    /\ InsertedInto
    /\ \E heading, content \in Created :
            /\ PlainTextIs(heading.paras[1], TxtAckHeading)
            /\ PlainTextIs(content.paras[1], TxtFundBody)

\* ------------------------------------------------------------------------
\* Body text under the references heading

\* the last comparison was of a body-text paragraph under references whose
\* size is known
ReferencesBodyCompared ==
    /\ resolved.kind = "compare"
    /\ resolved.section_type = "body_text"
    /\ resolved.context_section = "references"
    /\ IsSome(resolved.paragraph.font_size_w_val)

\* C23: whatever the template profile, a body-text paragraph under
\* references in 9 pt (w:sz 18) gets no font size mismatch, and one in
\* another size gets a font size mismatch whose expected value is 9 pt
C23_ReferencesBodyNinePoint ==
    ReferencesBodyCompared =>
        IF resolved.paragraph.font_size_w_val = Some(18)
        THEN ~HasFinding("font_size_mismatch")
        ELSE /\ HasFinding("font_size_mismatch")
             /\ \A k \in DOMAIN FindingsIn({"font_size_mismatch"}) :
                    FindingsIn({"font_size_mismatch"})[k].expected.pt = Some(900)

\* a 9 pt body-text paragraph under references was compared with a profile
\* built from a template whose body text is in 10 pt
C23_Witness ==
    /\ ReferencesBodyCompared
    /\ resolved.paragraph.font_size_w_val = Some(18)
    /\ resolved.expected.font_size = Some(900)

\* ------------------------------------------------------------------------
\* The context of body text

\* the paragraphs the manuscripts and templates of the walk are made of: two
\* headings, a caption, a journal name line, and body text in 12 pt
WalkParagraphs ==
    {Heading(TxtIntro), Heading(TxtReferences), Plain(TxtFigure), Plain(TxtJournal),
     Styled(TxtBody, "", "", 24, "Times New Roman", FALSE)}

\* three of them in any order, then body text
WalkDocuments ==
    {PackageOf(<<first, second, third,
                 Styled(TxtBody, "", "", 24, "Times New Roman", FALSE)>>) :
        first \in WalkParagraphs, second \in WalkParagraphs, third \in WalkParagraphs}

\* nothing was analysed and no profile built
Fresh == result.kind = "none" /\ ~IsSome(profile)

NextWalk ==
    \/ /\ Fresh
       /\ \E manuscript \in WalkDocuments : AnalyzeStream(TplOrdered, manuscript)
    \/ /\ Fresh
       /\ \E template \in WalkDocuments : BuildProfile(template)

SpecWalk == Init /\ [][NextWalk]_vars

NotAHeading == {"body_text", "figure_caption", "table_caption", "journal_name",
                "journal_metadata"}

\* the section of the findings of the body-text paragraph at position k of
\* paragraphs labelled labels
BodyTextSection(labels, k) ==
    LET before == {j \in 1..(k - 1) : labels[j] \notin NotAHeading}
    IN IF before = {} THEN "body_text::general"
       ELSE "body_text::" \o labels[CHOOSE j \in before : \A h \in before : h <= j]

FormatFindings ==
    {"font_size_mismatch", "font_family_mismatch", "bold_missing", "bold_incorrect",
     "italic_missing", "italic_incorrect"}

\* the paragraphs of the examples of a profile, each with its label
Labelled(examples) ==
    UNION {{[index |-> examples[s][k].index, label |-> s] : k \in DOMAIN examples[s]} :
                s \in DOMAIN examples}

\* the label of the nearest paragraph before index that sets the context,
\* "" when there is none
ContextBefore(labelled, index) ==
    LET before == {p \in labelled : p.index < index /\ p.label \notin NotAHeading}
    IN IF before = {} THEN ""
       ELSE (CHOOSE p \in before : \A h \in before : h.index <= p.index).label

\* C24: the findings of a body-text paragraph name the section
\* body_text::<context>, the context being the label of the nearest paragraph
\* before it that is not body text, a caption or a journal name or metadata
\* line, and body_text::general when there is none; and the profile builder
\* files a body-text paragraph of the template under that same context
C24_NearestHeadingIsContext ==
    /\ (result.kind # "none" /\ result.parsed) =>
            LET paragraphs == ParagraphsOf(result.manuscript)
            IN \A k \in DOMAIN paragraphs :
                    result.labels[k] = "body_text" =>
                        \A f \in DOMAIN result.findings :
                            (/\ result.findings[f].type \in FormatFindings
                             /\ paragraphs[k].index \in Range(result.findings[f].paragraph_indices))
                            => result.findings[f].section = BodyTextSection(result.labels, k)
    /\ IsSome(profile) =>
            LET labelled == Labelled(Val(profile).raw_examples)
            IN \A p \in {q \in labelled : q.label = "body_text"} :
                \A context \in {"introduction", "references", "figure_caption", "journal_name"} :
                    (/\ context \in DOMAIN Val(profile).context_examples
                     /\ \E k \in DOMAIN Val(profile).context_examples[context] :
                            Val(profile).context_examples[context][k].index = p.index)
                    <=> ContextBefore(labelled, p.index) = context

\* a body-text paragraph that follows a heading and then a caption or a journal
\* line got a finding in the section of the heading
C24_Witness ==
    /\ result.kind # "none"
    /\ result.parsed
    /\ \E k \in DOMAIN result.labels :
            /\ k > 2
            /\ result.labels[k] = "body_text"
            /\ result.labels[k - 1] \in {"figure_caption", "journal_name"}
            /\ result.labels[k - 2] = "introduction"
            /\ \E f \in DOMAIN result.findings :
                    /\ result.findings[f].type = "font_size_mismatch"
                    /\ ParagraphsOf(result.manuscript)[k].index
                            \in Range(result.findings[f].paragraph_indices)
                    /\ result.findings[f].section = "body_text::introduction"

\* ------------------------------------------------------------------------
\* Analysis, then highlighting or correction with its findings, then the
\* analysis of the corrected manuscript

\* a manuscript whose text under References is in 9 pt
MsSmallPrint ==
    PackageOf(<<Heading(TxtIntro), Styled(TxtBody, "", "", 24, "Arial", TRUE),
                Heading(TxtReferences), Styled(TxtCitation, "", "", 18, "Times New Roman", FALSE)>>)

RepairUploads == {MsTable, MsMarked, MsBlank, MsLab, MsSmallPrint}
RepairTemplates == {TplOrdered, TplJournal}

\* a manuscript was analysed and the mutators were not called yet
Analysed == result.kind # "none" /\ output.kind = "none"

\* the last analysis was that of the manuscript the mutator was given
Mutated(kind) ==
    /\ output.kind = kind
    /\ IsSome(output.package)
    /\ result.kind # "none"
    /\ result.manuscript = output.manuscript
    /\ result.findings = output.mistakes

NextRepair ==
    \/ /\ result.kind = "none"
       /\ \E template \in RepairTemplates, manuscript \in RepairUploads :
            AnalyzeStream(template, manuscript)
    \/ /\ Analysed
       /\ Highlight(result.manuscript, result.findings)
    \/ /\ Analysed
       /\ Correct(result.manuscript, result.findings)
    \/ /\ Mutated("correct")
       /\ AnalyzeStream(result.template_after, Val(output.package))

SpecRepair == Init /\ [][NextRepair]_vars

\* findall(".//w:p") on the content part of a package
ElementsOf(package) == AllParagraphs(Val(document_tree(package)))

\* the indices the findings list
IndicesOf(findings) ==
    UNION {Range(findings[f].paragraph_indices) : f \in DOMAIN findings}

\* the indices of the paragraph elements a mutator changed
ChangedBy(before, after) ==
    {i - 1 : i \in {j \in DOMAIN ElementsOf(before) :
                        ElementsOf(before)[j] # ElementsOf(after)[j]}}

\* every index the finding lists is the position of a paragraph element of the
\* content part of the manuscript, counted with the elements the extractor
\* dropped, the element has text, and the finding shows the text of the first
Denotes(finding, manuscript) ==
    \A n \in DOMAIN finding.paragraph_indices :
        LET i == finding.paragraph_indices[n]
            elements == ElementsOf(manuscript)
        IN /\ i + 1 \in DOMAIN elements
           /\ RunTexts(elements[i + 1]) # <<>>
           /\ n = 1 => finding.snippet = RunTexts(elements[i + 1])

\* highlight and correct, given the manuscript and the findings of its
\* analysis, change the elements at the positions the findings list and no
\* other, and highlight marks every run of each
MutatedInPlace ==
    /\ (Mutated("highlight") \/ Mutated("correct")) =>
            /\ Len(ElementsOf(Val(output.package))) = Len(ElementsOf(output.manuscript))
            /\ ChangedBy(output.manuscript, Val(output.package))
                    \subseteq IndicesOf(output.mistakes)
    /\ Mutated("highlight") =>
            \A i \in IndicesOf(output.mistakes) :
                \A r \in DOMAIN ElementsOf(Val(output.package))[i + 1].runs :
                    HighlightsOf(ElementsOf(Val(output.package))[i + 1].runs[r]) = Some("yellow")

\* the finding that the address line is missing, made for a manuscript that
\* has no journal metadata paragraph: it lists index 0 and shows no text
Unanchored(finding) ==
    finding.type = "journal_metadata_missing_detail" /\ finding.snippet = <<>>

Kinds ==
    {{"font_size_mismatch"}, {"font_family_mismatch"}, {"bold_missing", "bold_incorrect"},
     {"italic_missing", "italic_incorrect"}}

\* the paragraphs the findings of the kind list
ParagraphsWith(findings, kind) ==
    IndicesOf(SelectSeq(findings, LAMBDA finding : finding.type \in kind))

\* the last analysis was that of the package the correction returned
Reanalysed ==
    /\ output.kind = "correct"
    /\ IsSome(output.package)
    /\ result.kind # "none"
    /\ result.manuscript = Val(output.package)

\* C28: the size a size finding names in points is the size in half-points
\* the comparator compared with, and the analysis of a corrected manuscript
\* has no size, family, bold or italic finding for a paragraph that was
\* corrected for a finding of that kind
C28_CorrectionConverges ==
    /\ result.kind # "none" =>
            \A f \in DOMAIN result.findings :
                LET expected == result.findings[f].expected
                IN (/\ result.findings[f].type = "font_size_mismatch"
                    /\ IsSome(expected.pt)
                    /\ IsSome(expected.hp))
                   => Val(expected.pt) * 2 = Val(expected.hp) * 100
    /\ Reanalysed =>
            \A kind \in Kinds :
                ParagraphsWith(output.mistakes, kind)
                    \cap ParagraphsWith(result.findings, kind) = {}

\* a manuscript with a size, a family and a bold finding was corrected and
\* analysed again
C28_Witness ==
    /\ Reanalysed
    /\ result.manuscript # output.manuscript
    /\ \A kind \in Kinds \ {{"italic_missing", "italic_incorrect"}} :
            ParagraphsWith(output.mistakes, kind) # {}

\* ------------------------------------------------------------------------
\* The labels of a tagged template

\* the labels, the section order and the required sections the profile
\* builder gets from a template, in a process that analysed nothing before
TemplateSections(template) ==
    With(TemplateLabels(ParagraphsOf(template), {}).labels, LAMBDA labels :
        [labels |-> labels,
         section_order |-> Distinct(labels),
         required |-> required_sections([section_order |-> Distinct(labels)])])

\* the paragraphs of the template that ensure_template_tagging wrapped
WrappedByCall ==
    {i \in DOMAIN ParagraphsOf(result.template_after) :
        /\ ParagraphsOf(result.template_after)[i].role_tag # ""
        /\ ParagraphsOf(result.template_before)[i].role_tag = ""}

\* C26: a paragraph of the template that ensure_template_tagging wrapped with
\* the tag of its label is classified with that label again, and the tagged
\* template has the labels, the section order and the required sections of
\* the template before it was tagged
C26_TaggingRoundTrips ==
    (result.kind = "path" /\ result.parsed) =>
        /\ \A i \in WrappedByCall :
                classify_section_type(ParagraphsOf(result.template_after)[i], {})
                    = classify_section_type(ParagraphsOf(result.template_before)[i], {})
        /\ TemplateSections(result.template_after) = TemplateSections(result.template_before)

\* the call tagged the heading of the introduction of the template
C26_Witness ==
    /\ result.kind = "path"
    /\ result.parsed
    /\ \E i \in WrappedByCall :
            /\ classify_section_type(ParagraphsOf(result.template_before)[i], {})
                    = "introduction"
            /\ ParagraphsOf(result.template_after)[i].role_tag = "jiwe:heading level=1"

\* ------------------------------------------------------------------------
\* Insertion repeated on its own output

\* the number of paragraphs of the body with the text
CountText(body, text) ==
    Cardinality({i \in DOMAIN AllParagraphs(body) : PlainTextIs(AllParagraphs(body)[i], text)})

\* C29: insert_missing_sections called again, with the same missing sections,
\* on the package it returned leaves the content part as it is, and the
\* package it returns has the heading and the content of the acknowledgement
\* block and of the funding block at most once
C29_InsertIdempotent ==
    (output.kind = "insert" /\ IsSome(document_tree(output.manuscript))) =>
        /\ output.runs > 1 => BodyOf(Val(output.package)) = BodyOf(output.manuscript)
        /\ \A section_key \in DOMAIN default_blocks :
                /\ CountText(BodyOf(Val(output.package)),
                             default_blocks[section_key].heading) <= 1
                /\ CountText(BodyOf(Val(output.package)),
                             default_blocks[section_key].content) <= 1

\* the second call was given a package the first call had put the
\* acknowledgement block and the funding block into
C29_Witness ==
    /\ output.kind = "insert"
    /\ output.runs > 1
    /\ IsSome(document_tree(output.manuscript))
    /\ output.missing = {"acknowledgement", "funding statement"}
    /\ \A section_key \in output.missing :
            CountText(BodyOf(Val(output.package)), default_blocks[section_key].heading) = 1

\* ------------------------------------------------------------------------
\* The front end
\*
\* One action is one run of the script for one event: a file put into an
\* uploader or a button pressed.  An uploaded file is its name and its
\* package; the uploaders are keyed by reset_counter, so that a reset
\* leaves both empty.

UploadedFile(name, data) == [name |-> name, data |-> data]

\* a manuscript with a title that differs from that of MsLab, without
\* acknowledgement and funding statement
MsDraft ==
    PackageOf(<<Styled(TxtTitle, "Title", "center", 28, "Times New Roman", TRUE),
                Heading(TxtAbstract), Heading(TxtIntro),
                Styled(TxtBody, "", "", 24, "Arial", FALSE),
                Heading(TxtReferences), Styled(TxtCitation, "", "", 18, "Times New Roman", FALSE)>>)

SessionTemplates == {UploadedFile("template.docx", TplOrdered)}
SessionManuscripts ==
    {UploadedFile("lab.docx", MsLab), UploadedFile("draft.docx", MsDraft)}

\* the session is reset at most MaxResets times
MaxResets == 1

\* st.file_uploader of the template
UploadTemplate(template_file) ==
    /\ UNCHANGED <<disk, registry, result, log, profile, resolved, output>>
    /\ session' = [session EXCEPT !.template_file = Some(template_file)]

\* st.file_uploader of the manuscript
UploadManuscript(manuscript_file) ==
    /\ UNCHANGED <<disk, registry, result, log, profile, resolved, output>>
    /\ session' = [session EXCEPT !.manuscript_file = Some(manuscript_file)]

\* both uploaders hold a file
BothUploaded == IsSome(session.template_file) /\ IsSome(session.manuscript_file)

\* analyze_btn, both files being there
AnalyzeButton ==
    /\ BothUploaded
    /\ \E template \in {Val(session.template_file).data},
          manuscript \in {Val(session.manuscript_file).data} :
       \E analysis \in {Analysis(template, manuscript, registry)} :
       \E missing_list \in Orderings(MissingOf(analysis)) :
       \E returned \in {Returned(analysis, template, manuscript, registry, missing_list)} :
            /\ registry' = returned.registry
            /\ result' = Outcome("session", template, template, manuscript, analysis, returned)
            /\ session' = [session EXCEPT !.mistakes_df = Some(returned.findings),
                                          !.excel_bytes = Some([mistakes |-> returned.findings,
                                                                missing |-> returned.missing]),
                                          !.analysis_done = TRUE,
                                          !.missing_sections = returned.missing]
    /\ UNCHANGED <<disk, log, profile, resolved, output>>

\* the reset button
ResetButton ==
    /\ session.reset_counter < MaxResets
    /\ session' = [session EXCEPT !.analysis_done = FALSE,
                                  !.excel_bytes = None,
                                  !.mistakes_df = None,
                                  !.processed_doc_bytes = None,
                                  !.processed_doc_name = None,
                                  !.processing_done = FALSE,
                                  !.reset_counter = session.reset_counter + 1,
                                  !.template_file = None,
                                  !.manuscript_file = None]
    /\ UNCHANGED <<disk, registry, result, log, profile, resolved, output>>

\* the third tab shows the three processing buttons
ProcessingOffered ==
    /\ session.analysis_done
    /\ IsSome(session.mistakes_df)
    /\ Val(session.mistakes_df) # <<>>

\* the end of the processing branch: the document is kept when there is one
Processed(button, process_type, process_description, processed_bytes, highlight_debug) ==
    /\ output' = Called(button, Val(session.template_file).data,
                        Val(session.manuscript_file).data, Val(session.mistakes_df),
                        Range(session.missing_sections), processed_bytes, 1)
    /\ session' =
        IF IsSome(processed_bytes)
        THEN [session EXCEPT !.processed_doc_bytes = processed_bytes,
                             !.processed_doc_name =
                                Some(<<process_type, Val(session.manuscript_file).name>>),
                             !.processing_done = TRUE,
                             !.process_description = process_description,
                             !.highlight_debug_info = highlight_debug]
        ELSE [session EXCEPT !.highlight_debug_info = highlight_debug]
    /\ UNCHANGED <<disk, result, log, profile, resolved>>

\* highlight_btn: the missing sections are inserted, then the findings are
\* highlighted in what came out
HighlightButton ==
    /\ ProcessingOffered
    /\ BothUploaded
    /\ \E inserted \in {IF session.missing_sections # <<>>
                        THEN insert_missing_sections(Val(session.template_file).data,
                                                     Val(session.manuscript_file).data,
                                                     Range(session.missing_sections), registry)
                        ELSE [package |-> Val(session.manuscript_file).data,
                              registry |-> registry]} :
       \E done \in {highlight_mistakes(inserted.package, Val(session.mistakes_df))} :
            /\ registry' = inserted.registry
            /\ Processed("highlight_btn", "HIGHLIGHTED", "Highlighted Document",
                         done.package, done.paragraphs)

\* correct_btn: the findings are corrected, then the missing sections are
\* inserted
CorrectButton ==
    /\ ProcessingOffered
    /\ BothUploaded
    /\ \E corrected_bytes \in {apply_corrections(Val(session.manuscript_file).data,
                                                 Val(session.mistakes_df))} :
        IF IsSome(corrected_bytes)
        THEN \E inserted \in {insert_missing_sections(Val(session.template_file).data,
                                                      Val(corrected_bytes),
                                                      Range(session.missing_sections),
                                                      registry)} :
                /\ registry' = inserted.registry
                /\ Processed("correct_btn", "CORRECTED", "Corrected Document",
                             Some(inserted.package), {})
        ELSE /\ registry' = registry
             /\ Processed("correct_btn", "CORRECTED", "Corrected Document", None, {})

\* both_btn: the findings are corrected, the missing sections are inserted,
\* then the findings are highlighted
BothButton ==
    /\ ProcessingOffered
    /\ BothUploaded
    /\ \E corrected_bytes \in {apply_corrections(Val(session.manuscript_file).data,
                                                 Val(session.mistakes_df))} :
        IF IsSome(corrected_bytes)
        THEN \E inserted \in {insert_missing_sections(Val(session.template_file).data,
                                                      Val(corrected_bytes),
                                                      Range(session.missing_sections),
                                                      registry)} :
             \E done \in {highlight_mistakes(inserted.package, Val(session.mistakes_df))} :
                /\ registry' = inserted.registry
                /\ Processed("both_btn", "CORRECTED_AND_HIGHLIGHTED",
                             "Corrected & Highlighted Document", done.package,
                             done.paragraphs)
        ELSE /\ registry' = registry
             /\ Processed("both_btn", "", "", None, {})

\* the uploaders of the current key are on the page
UploadersShown == session.reset_counter \in 0..MaxResets

NextSession ==
    \/ /\ UploadersShown
       /\ \E template_file \in SessionTemplates : UploadTemplate(template_file)
    \/ /\ UploadersShown
       /\ \E manuscript_file \in SessionManuscripts : UploadManuscript(manuscript_file)
    \/ AnalyzeButton
    \/ ResetButton
    \/ HighlightButton
    \/ CorrectButton
    \/ BothButton

SpecSession == Init /\ [][NextSession]_vars

\* ------------------------------------------------------------------------
\* Claims on the front end

Buttons == {"highlight_btn", "correct_btn", "both_btn"}

\* the processing buttons were last pressed with the findings of the analysis
\* of the manuscript they processed
ProcessedOwnFindings ==
    /\ output.kind \in Buttons
    /\ IsSome(output.package)
    /\ result.kind = "session"
    /\ output.manuscript = result.manuscript
    /\ output.template = result.template_after
    /\ output.mistakes = result.findings

\* the text of the paragraph element at index i, <<>> when there is none
TextAt(package, i) ==
    IF i + 1 \in DOMAIN ElementsOf(package) THEN RunTexts(ElementsOf(package)[i + 1])
    ELSE <<>>

\* C27: when highlight_btn or both_btn processed a manuscript with the
\* findings of its own analysis, the paragraph of the processed document at
\* each index a finding lists is the paragraph of the manuscript at that
\* index: it has its text
C27_HighlightedParagraphIsFlagged ==
    (ProcessedOwnFindings /\ output.kind \in {"highlight_btn", "both_btn"}) =>
        \A i \in IndicesOf(output.mistakes) :
            TextAt(Val(output.package), i) = TextAt(output.manuscript, i)

\* highlight_btn or both_btn inserted a missing section and highlighted a
\* paragraph for a finding
C27_Witness ==
    /\ ProcessedOwnFindings
    /\ output.kind \in {"highlight_btn", "both_btn"}
    /\ Len(ElementsOf(Val(output.package))) > Len(ElementsOf(output.manuscript))
    /\ \E i \in IndicesOf(output.mistakes) :
        \E r \in DOMAIN ElementsOf(Val(output.package))[i + 1].runs :
            HighlightsOf(ElementsOf(Val(output.package))[i + 1].runs[r]) = Some("yellow")

\* C30: whenever processing_done is true, the analysis is done and the
\* document kept for download was made by the last press of a processing
\* button, from the template, the manuscript and the findings of the last
\* analysis
C30_ProcessedFromLatestAnalysis ==
    session.processing_done =>
        /\ session.analysis_done
        /\ ProcessedOwnFindings
        /\ session.processed_doc_bytes = output.package
        /\ session.mistakes_df = Some(result.findings)

\* a document was processed and is offered for download
C30_Witness ==
    /\ ProcessingOffered
    /\ session.processing_done
    /\ IsSome(session.processed_doc_bytes)
    /\ IsSome(session.processed_doc_name)
    /\ ProcessedOwnFindings
====
